---------------------------- MODULE Spec2Model ----------------------------
(***************************************************************************)
(* Pathway regression tester: the conversation driver                      *)
(* (PathwayRunner.run_conversation), its termination detector and          *)
(* utterance sanitizer, and the path-aware evaluator                       *)
(* (PathwayEvaluator.evaluate_result) with its value comparator.           *)
(*                                                                         *)
(* Text is a sequence of one-character strings, so that trimming, case     *)
(* conversion, substring search, line splitting and number parsing are     *)
(* computed character by character, as the Python code computes them.      *)
(* The alphabet is ASCII: letters, digits, punctuation, and the            *)
(* whitespace characters space, tab, newline and carriage return.          *)
(***************************************************************************)
EXTENDS Integers, Sequences, FiniteSets, TLC

VARIABLES
    \* ---- PathwayRunner.run_conversation (one run) ----
    pc,                       \* position of the run
    max_turns,                \* argument
    auto_detect_end,          \* argument
    chat_id,                  \* the created session, or NoChat
    response_data,            \* the latest service reply
    conversation_log,
    persona_chat_history,
    turn_count,
    end_reason,
    consecutive_silent_turns,
    result,                   \* the returned dictionary, or NoResult
    remote_calls,             \* history: every remote call made, in order
    generator_calls,          \* history: the history passed at each generator call
    live_run,                 \* run_conversation_with_live_updates: its locals and history
    \* ---- PathwayEvaluator.evaluate_result ----
    persona,                  \* argument: goal.extracted_vars_expected
    eval_result,              \* argument: the conversation result
    service_structure,        \* what the pathway service holds for the pathway id
    api_key_set,              \* whether BLAND_API_KEY is set
    pathway_cache,            \* PathwayEvaluator._pathway_cache
    evaluation,               \* the returned evaluation, or NoEvaluation
    eval_calls,               \* number of evaluate_result calls made
    fetch_calls,              \* number of remote structure fetches made
    pathway_structure,        \* history: the structure the last lookup returned
    \* ---- the pure functions, applied to drawn inputs ----
    fn_input,
    fn_output

driverVars == <<pc, max_turns, auto_detect_end, chat_id, response_data,
                conversation_log, persona_chat_history, turn_count, end_reason,
                consecutive_silent_turns, result, remote_calls, generator_calls,
                live_run>>
evalVars == <<persona, eval_result, service_structure, api_key_set,
              pathway_cache, evaluation, eval_calls, fetch_calls, pathway_structure>>
fnVars == <<fn_input, fn_output>>
vars == <<driverVars, evalVars, fnVars>>

(***************************************************************************)
(* Bounds of the model.                                                    *)
(***************************************************************************)
MaxTurns == 3        \* max_turns is drawn from 0..MaxTurns
MaxPieces == 3       \* a drawn text is a concatenation of at most MaxPieces pieces
MaxLog == 1          \* length of the conversation_log handed to the evaluator
MaxEvals == 2        \* evaluate_result calls in one process
MaxCalls == 3        \* evaluate_result calls in a process serving several pathways
MaxWorkers == 2      \* evaluations running at the same time

(***************************************************************************)
(* Text.                                                                   *)
(***************************************************************************)
LowerLetters == <<"a", "b", "c", "d", "e", "f", "g", "h", "i", "j", "k", "l", "m",
                  "n", "o", "p", "q", "r", "s", "t", "u", "v", "w", "x", "y", "z">>
UpperLetters == <<"A", "B", "C", "D", "E", "F", "G", "H", "I", "J", "K", "L", "M",
                  "N", "O", "P", "Q", "R", "S", "T", "U", "V", "W", "X", "Y", "Z">>
Whitespace == {" ", "\t", "\n", "\r"}
LineBreaks == {"\n", "\r"}

\* str.upper(), one character
UpperChar(c) ==
    IF \E i \in 1..26 : LowerLetters[i] = c
    THEN UpperLetters[CHOOSE i \in 1..26 : LowerLetters[i] = c]
    ELSE c

\* str.lower(), one character
LowerChar(c) ==
    IF \E i \in 1..26 : UpperLetters[i] = c
    THEN LowerLetters[CHOOSE i \in 1..26 : UpperLetters[i] = c]
    ELSE c

upper(s) == [i \in 1..Len(s) |-> UpperChar(s[i])]
lower(s) == [i \in 1..Len(s) |-> LowerChar(s[i])]

\* str.strip()
strip(s) ==
    LET solid == {i \in 1..Len(s) : s[i] \notin Whitespace}
    IN IF solid = {} THEN <<>>
       ELSE SubSeq(s, CHOOSE i \in solid : \A j \in solid : i <= j,
                      CHOOSE i \in solid : \A j \in solid : i >= j)

\* the Python operator "p in s" on two texts
Contains(s, p) ==
    \E i \in 0..(Len(s) - Len(p)) : SubSeq(s, i + 1, i + Len(p)) = p

\* str.splitlines(): "\r\n" is one line boundary, no empty line after a final one
RECURSIVE splitlines(_)
splitlines(s) ==
    LET breaks == {i \in 1..Len(s) : s[i] \in LineBreaks}
    IN IF s = <<>> THEN <<>>
       ELSE IF breaks = {} THEN <<s>>
       ELSE LET b == CHOOSE i \in breaks : \A j \in breaks : i <= j
                e == IF s[b] = "\r" /\ b < Len(s) /\ s[b + 1] = "\n" THEN b + 1 ELSE b
            IN <<SubSeq(s, 1, b - 1)>> \o splitlines(SubSeq(s, e + 1, Len(s)))

\* all the concatenations of at most n texts of the set pieces
RECURSIVE Concatenations(_, _)
Concatenations(pieces, n) ==
    IF n = 0 THEN {<<>>}
    ELSE LET shorter == Concatenations(pieces, n - 1)
         IN shorter \cup {t \o p : t \in shorter, p \in pieces}

NoneValue == "None"       \* Python's None as an end reason
NoneText == <<"None">>    \* Python's None where a text is expected

(***************************************************************************)
(* PathwayRunner._detect_conversation_end                                  *)
(***************************************************************************)
END_CALL == <<"E", "N", "D", "_", "C", "A", "L", "L">>
GOODBYE == <<"G", "O", "O", "D", "B", "Y", "E">>

\* the detector with its two tests in the other order
DetectGoodbyeFirst(last_user_message) ==
    LET message_upper == upper(last_user_message)
    IN IF Contains(message_upper, GOODBYE)
       THEN <<TRUE, "user_ended_call_naturally">>
       ELSE IF Contains(message_upper, END_CALL)
       THEN <<TRUE, "user_ended_call_unsuccessfully">>
       ELSE <<FALSE, NoneValue>>

_detect_conversation_end(last_user_message) ==
    LET message_upper == upper(last_user_message)
    IN IF Contains(message_upper, END_CALL)
       THEN <<TRUE, "user_ended_call_unsuccessfully">>
       ELSE IF Contains(message_upper, GOODBYE)
       THEN <<TRUE, "user_ended_call_naturally">>
       ELSE <<FALSE, NoneValue>>

(***************************************************************************)
(* PathwayRunner._sanitize_persona_message                                 *)
(***************************************************************************)
FALLBACK == <<"S", "o", "r", "r", "y", ",", " ", "c", "o", "u", "l", "d", " ",
              "y", "o", "u", " ", "r", "e", "p", "e", "a", "t", " ",
              "t", "h", "a", "t", "?">>
ROLE_USER == <<"u", "s", "e", "r">>
ROLE_ASSISTANT == <<"a", "s", "s", "i", "s", "t", "a", "n", "t">>
ROLE_BLAND == <<"(", "b", "l", "a", "n", "d", ")">>

\* the regular expression's \s* from position i on: the first position
\* from i that holds no whitespace character (Len(s) + 1 at the end)
SkipSpace(s, i) ==
    LET stops == {j \in i..(Len(s) + 1) : j = Len(s) + 1 \/ s[j] \notin Whitespace}
    IN CHOOSE j \in stops : \A k \in stops : j <= k

\* a literal of the pattern at position i, under re.IGNORECASE
MatchesAt(s, i, word) ==
    /\ i + Len(word) - 1 <= Len(s)
    /\ \A k \in 1..Len(word) : LowerChar(s[i + k - 1]) = word[k]

\* ^\s*(user|assistant|\(bland\)\s*assistant)\s*:\s*
\* the position after the match, or 0 when the pattern does not match
SpeakerPrefixEnd(s) ==
    LET start == SkipSpace(s, 1)
        afterBland == SkipSpace(s, start + Len(ROLE_BLAND))
        roleEnd == IF MatchesAt(s, start, ROLE_USER) THEN start + Len(ROLE_USER)
                   ELSE IF MatchesAt(s, start, ROLE_ASSISTANT)
                        THEN start + Len(ROLE_ASSISTANT)
                   ELSE IF MatchesAt(s, start, ROLE_BLAND)
                           /\ MatchesAt(s, afterBland, ROLE_ASSISTANT)
                        THEN afterBland + Len(ROLE_ASSISTANT)
                   ELSE 0
        colon == SkipSpace(s, roleEnd)
    IN IF roleEnd # 0 /\ colon <= Len(s) /\ s[colon] = ":"
       THEN SkipSpace(s, colon + 1)
       ELSE 0

\* the substitution that removes nothing
KeepSpeakerPrefix(s) == s

\* re.sub(pattern, "", first_line, flags=re.IGNORECASE)
RemoveSpeakerPrefix(s) ==
    IF SpeakerPrefixEnd(s) = 0 THEN s
    ELSE SubSeq(s, SpeakerPrefixEnd(s), Len(s))

\* next((line.strip() for line in cleaned.splitlines() if line.strip()), cleaned)
FirstNonBlankLine(cleaned) ==
    LET lines == splitlines(cleaned)
        solid == {i \in 1..Len(lines) : strip(lines[i]) # <<>>}
    IN IF solid = {} THEN cleaned
       ELSE strip(lines[CHOOSE i \in solid : \A j \in solid : i <= j])

\* the sanitizer without the fallback of its last line
SanitizeNoFinalFallback(message) ==
    LET cleaned == strip(IF message = NoneText THEN <<>> ELSE message)
    IN IF cleaned = <<>> THEN FALLBACK
       ELSE strip(RemoveSpeakerPrefix(FirstNonBlankLine(cleaned)))

_sanitize_persona_message(message) ==
    LET cleaned == strip(IF message = NoneText THEN <<>> ELSE message)
        first_line == RemoveSpeakerPrefix(FirstNonBlankLine(cleaned))
    IN IF cleaned = <<>> THEN FALLBACK
       ELSE IF strip(first_line) = <<>> THEN FALLBACK
       ELSE strip(first_line)

(***************************************************************************)
(* Values of variables: None, text and numbers (a number is the rational   *)
(* num/den, den > 0, so that 5 and 5.0 are the same value as in Python).   *)
(***************************************************************************)
None == [type |-> "NoneType", text |-> <<>>, num |-> 0, den |-> 1]
Str(s) == [type |-> "str", text |-> s, num |-> 0, den |-> 1]
Num(n, d) == [type |-> "number", text |-> <<>>, num |-> n, den |-> d]

Digits == <<"0", "1", "2", "3", "4", "5", "6", "7", "8", "9">>
IsDigit(c) == \E i \in 1..10 : Digits[i] = c
DigitValue(c) == (CHOOSE i \in 1..10 : Digits[i] = c) - 1
AllDigits(s) == \A i \in 1..Len(s) : IsDigit(s[i])

RECURSIVE DigitsValue(_)
DigitsValue(s) ==
    IF s = <<>> THEN 0
    ELSE 10 * DigitsValue(SubSeq(s, 1, Len(s) - 1)) + DigitValue(s[Len(s)])

FirstIndex(s, chars) ==
    LET hits == {i \in 1..Len(s) : s[i] \in chars}
    IN IF hits = {} THEN 0 ELSE CHOOSE i \in hits : \A j \in hits : i <= j

\* a leading sign and what follows it
SplitSign(s) ==
    IF s # <<>> /\ s[1] \in {"+", "-"}
    THEN [negative |-> s[1] = "-", rest |-> Tail(s)]
    ELSE [negative |-> FALSE, rest |-> s]

\* the text before and the text after the first of the characters chars
SplitAt(s, chars) ==
    LET i == FirstIndex(s, chars)
    IN IF i = 0 THEN [found |-> FALSE, head |-> s, tail |-> <<>>]
       ELSE [found |-> TRUE, head |-> SubSeq(s, 1, i - 1),
             tail |-> SubSeq(s, i + 1, Len(s))]

\* the number with the digits ip before and fp after the point, times ten
\* to the power written by the digits edigits (negated when eneg)
FloatOf(negative, ip, fp, has_exp, eneg, edigits) ==
    LET ok == /\ AllDigits(ip) /\ AllDigits(fp) /\ Len(ip) + Len(fp) >= 1
              /\ has_exp => (edigits # <<>> /\ AllDigits(edigits))
        e10 == (IF eneg THEN 0 - DigitsValue(edigits) ELSE DigitsValue(edigits))
               - Len(fp)
        m == IF negative THEN 0 - DigitsValue(ip \o fp) ELSE DigitsValue(ip \o fp)
    IN IF ~ok THEN [ok |-> FALSE, num |-> 0, den |-> 1]
       ELSE [ok |-> TRUE,
             num |-> IF e10 > 0 THEN m * 10^e10 ELSE m,
             den |-> IF e10 < 0 THEN 10^(0 - e10) ELSE 1]

\* float(text): [sign] digits [. digits] [e [sign] digits] between optional
\* whitespace; ok = FALSE stands for ValueError.  (The words inf and nan and
\* the digit separator _ are not formed by the texts of the model.)
ParseFloat(s) ==
    LET sign == SplitSign(strip(s))
        exponent == SplitAt(sign.rest, {"e", "E"})
        point == SplitAt(exponent.head, {"."})
        esign == SplitSign(exponent.tail)
    IN FloatOf(sign.negative, point.head, point.tail,
               exponent.found, esign.negative, esign.rest)

\* float(value) of a value that is not None
float(v) ==
    IF v.type = "str" THEN ParseFloat(v.text)
    ELSE [ok |-> TRUE, num |-> v.num, den |-> v.den]

\* Python's == on two values that are not None
PyEquals(a, b) ==
    IF a.type = "str" /\ b.type = "str" THEN a.text = b.text
    ELSE IF a.type = "number" /\ b.type = "number" THEN a.num * b.den = b.num * a.den
    ELSE FALSE

(***************************************************************************)
(* PathwayEvaluator.normalize_value, compare_values                        *)
(***************************************************************************)
normalize_value(value) ==
    IF value.type = "str" THEN Str(lower(strip(value.text))) ELSE value

\* a reason: a fixed word, or the word before the colon of a formatted
\* reason together with the two values the f-string prints
Reason(label) == [label |-> label, detail |-> <<>>]
FormattedReason(label, expected, actual) ==
    [label |-> label, detail |-> <<expected, actual>>]

\* the comparator that tests containment before equality
ComparePartialFirst(expected, actual) ==
    LET exp_norm == normalize_value(expected)
        act_norm == normalize_value(actual)
    IN IF expected = None /\ actual = None THEN <<TRUE, Reason("both_none")>>
       ELSE IF expected = None \/ actual = None
       THEN <<FALSE, FormattedReason("one_none", expected, actual)>>
       ELSE IF /\ exp_norm.type = "str" /\ act_norm.type = "str"
               /\ \/ Contains(act_norm.text, exp_norm.text)
                  \/ Contains(exp_norm.text, act_norm.text)
       THEN <<TRUE, Reason("partial_match")>>
       ELSE IF PyEquals(exp_norm, act_norm) THEN <<TRUE, Reason("exact_match")>>
       ELSE IF /\ float(exp_norm).ok /\ float(act_norm).ok
               /\ float(exp_norm).num * float(act_norm).den
                    = float(act_norm).num * float(exp_norm).den
       THEN <<TRUE, Reason("numeric_match")>>
       ELSE <<FALSE, FormattedReason("mismatch", expected, actual)>>

\* the comparator whose containment rule leaves empty texts aside
CompareNonEmptyContainment(expected, actual) ==
    LET exp_norm == normalize_value(expected)
        act_norm == normalize_value(actual)
    IN IF expected = None /\ actual = None THEN <<TRUE, Reason("both_none")>>
       ELSE IF expected = None \/ actual = None
       THEN <<FALSE, FormattedReason("one_none", expected, actual)>>
       ELSE IF PyEquals(exp_norm, act_norm) THEN <<TRUE, Reason("exact_match")>>
       ELSE IF /\ exp_norm.type = "str" /\ act_norm.type = "str"
               /\ exp_norm.text # <<>> /\ act_norm.text # <<>>
               /\ \/ Contains(act_norm.text, exp_norm.text)
                  \/ Contains(exp_norm.text, act_norm.text)
       THEN <<TRUE, Reason("partial_match")>>
       ELSE IF /\ float(exp_norm).ok /\ float(act_norm).ok
               /\ float(exp_norm).num * float(act_norm).den
                    = float(act_norm).num * float(exp_norm).den
       THEN <<TRUE, Reason("numeric_match")>>
       ELSE <<FALSE, FormattedReason("mismatch", expected, actual)>>

\* the comparator whose numeric rule asks only that both values parse
CompareNumericAnyParse(expected, actual) ==
    LET exp_norm == normalize_value(expected)
        act_norm == normalize_value(actual)
    IN IF expected = None /\ actual = None THEN <<TRUE, Reason("both_none")>>
       ELSE IF expected = None \/ actual = None
       THEN <<FALSE, FormattedReason("one_none", expected, actual)>>
       ELSE IF PyEquals(exp_norm, act_norm) THEN <<TRUE, Reason("exact_match")>>
       ELSE IF /\ exp_norm.type = "str" /\ act_norm.type = "str"
               /\ \/ Contains(act_norm.text, exp_norm.text)
                  \/ Contains(exp_norm.text, act_norm.text)
       THEN <<TRUE, Reason("partial_match")>>
       ELSE IF float(exp_norm).ok /\ float(act_norm).ok
       THEN <<TRUE, Reason("numeric_match")>>
       ELSE <<FALSE, FormattedReason("mismatch", expected, actual)>>

\* the comparator that looks for the expected text in the actual one only
CompareContainsOneWay(expected, actual) ==
    LET exp_norm == normalize_value(expected)
        act_norm == normalize_value(actual)
    IN IF expected = None /\ actual = None THEN <<TRUE, Reason("both_none")>>
       ELSE IF expected = None \/ actual = None
       THEN <<FALSE, FormattedReason("one_none", expected, actual)>>
       ELSE IF PyEquals(exp_norm, act_norm) THEN <<TRUE, Reason("exact_match")>>
       ELSE IF /\ exp_norm.type = "str" /\ act_norm.type = "str"
               /\ Contains(act_norm.text, exp_norm.text)
       THEN <<TRUE, Reason("partial_match")>>
       ELSE IF /\ float(exp_norm).ok /\ float(act_norm).ok
               /\ float(exp_norm).num * float(act_norm).den
                    = float(act_norm).num * float(exp_norm).den
       THEN <<TRUE, Reason("numeric_match")>>
       ELSE <<FALSE, FormattedReason("mismatch", expected, actual)>>

compare_values(expected, actual) ==
    LET exp_norm == normalize_value(expected)
        act_norm == normalize_value(actual)
    IN IF expected = None /\ actual = None THEN <<TRUE, Reason("both_none")>>
       ELSE IF expected = None \/ actual = None
       THEN <<FALSE, FormattedReason("one_none", expected, actual)>>
       ELSE IF PyEquals(exp_norm, act_norm) THEN <<TRUE, Reason("exact_match")>>
       ELSE IF /\ exp_norm.type = "str" /\ act_norm.type = "str"
               /\ \/ Contains(act_norm.text, exp_norm.text)
                  \/ Contains(exp_norm.text, act_norm.text)
       THEN <<TRUE, Reason("partial_match")>>
       ELSE IF /\ float(exp_norm).ok /\ float(act_norm).ok
               /\ float(exp_norm).num * float(act_norm).den
                    = float(act_norm).num * float(exp_norm).den
       THEN <<TRUE, Reason("numeric_match")>>
       ELSE <<FALSE, FormattedReason("mismatch", expected, actual)>>

(***************************************************************************)
(* PathwayEvaluator: the pathway-structure lookup and evaluate_result.     *)
(* A dictionary is a function on its set of keys.                          *)
(***************************************************************************)
EmptyDict == [k \in {} |-> None]
EmptyStructure == [nodes |-> <<>>]        \* the {} a failed lookup returns
SystemVariables == {"callID", "channel", "call_id", "chat_id", "BlandStatusCode"}

PyBool(b) == IF b THEN "True" ELSE "False"
Truthy(name) == name # NoneValue /\ name # ""

\* the outcome of requests.get / raise_for_status / response.json():
\* "ok" (the structure), "errors" (a payload with errors), "exception"
FetchOutcomes == {"ok", "errors", "exception"}

\* the lookup that stores the empty structure of a failed fetch
FetchStoresFailure(pathway_id, cache, key_set, remote, outcome) ==
    IF pathway_id \in DOMAIN cache
    THEN [structure |-> cache[pathway_id], cache |-> cache, fetched |-> FALSE]
    ELSE IF ~key_set
    THEN [structure |-> EmptyStructure, cache |-> cache, fetched |-> FALSE]
    ELSE [structure |-> IF outcome = "ok" THEN remote ELSE EmptyStructure,
          cache |-> [id \in DOMAIN cache \cup {pathway_id} |->
                        IF id # pathway_id THEN cache[id]
                        ELSE IF outcome = "ok" THEN remote ELSE EmptyStructure],
          fetched |-> TRUE]

\* the lookup that never reads the cache
FetchIgnoresCache(pathway_id, cache, key_set, remote, outcome) ==
    IF ~key_set
    THEN [structure |-> EmptyStructure, cache |-> cache, fetched |-> FALSE]
    ELSE IF outcome = "ok"
    THEN [structure |-> remote,
          cache |-> [id \in DOMAIN cache \cup {pathway_id} |->
                        IF id = pathway_id THEN remote ELSE cache[id]],
          fetched |-> TRUE]
    ELSE [structure |-> EmptyStructure, cache |-> cache, fetched |-> TRUE]

\* _fetch_pathway_structure: the structure returned, the cache afterwards
\* and whether a remote call was made
_fetch_pathway_structure(pathway_id, cache, key_set, remote, outcome) ==
    IF pathway_id \in DOMAIN cache
    THEN [structure |-> cache[pathway_id], cache |-> cache, fetched |-> FALSE]
    ELSE IF ~key_set
    THEN [structure |-> EmptyStructure, cache |-> cache, fetched |-> FALSE]
    ELSE IF outcome = "ok"
    THEN [structure |-> remote,
          cache |-> [id \in DOMAIN cache \cup {pathway_id} |->
                        IF id = pathway_id THEN remote ELSE cache[id]],
          fetched |-> TRUE]
    ELSE [structure |-> EmptyStructure, cache |-> cache, fetched |-> TRUE]

Range(s) == {s[i] : i \in 1..Len(s)}

_get_variables_for_nodes(structure, node_names) ==
    UNION { { var[1] : var \in {v \in Range(node.extractVars) : Len(v) > 0} } :
              node \in {n \in Range(structure.nodes) : n.name \in node_names} }

\* lines 134-142: the nodes of the log entries and the final node
VisitedNodes(res) ==
    { res.conversation_log[i].current_node :
        i \in {k \in 1..Len(res.conversation_log) :
                 Truthy(res.conversation_log[k].current_node)} }
    \cup (IF Truthy(res.final_node) THEN {res.final_node} ELSE {})

\* the filter that keeps every expected variable whatever the path declares
RelevantUnfiltered(expected_vars, vars_for_path) == expected_vars

\* the filter that scores every variable the path declares, expected or not
RelevantAllPathVars(expected_vars, vars_for_path) ==
    IF vars_for_path # {}
    THEN [k \in vars_for_path |->
             IF k \in DOMAIN expected_vars THEN expected_vars[k] ELSE None]
    ELSE expected_vars

\* the filter that restricts to the path also when the path declares nothing
RelevantAlwaysFiltered(expected_vars, vars_for_path) ==
    [k \in DOMAIN expected_vars \cap vars_for_path |-> expected_vars[k]]

\* lines 150-153
RelevantExpectedVars(expected_vars, vars_for_path) ==
    IF vars_for_path # {}
    THEN [k \in DOMAIN expected_vars \cap vars_for_path |-> expected_vars[k]]
    ELSE expected_vars

\* the record of a relevant variable with another word for an absent one
MatchRecordMissingLabel(expected_value, actual_vars, var_name) ==
    IF var_name \in DOMAIN actual_vars
    THEN LET cmp == compare_values(expected_value, actual_vars[var_name])
         IN [expected |-> expected_value, actual |-> actual_vars[var_name],
             matched |-> PyBool(cmp[1]), match_type |-> cmp[2]]
    ELSE [expected |-> expected_value, actual |-> None,
          matched |-> "False", match_type |-> Reason("missing")]

\* lines 178-200: the record of a relevant variable
MatchRecord(expected_value, actual_vars, var_name) ==
    IF var_name \in DOMAIN actual_vars
    THEN LET cmp == compare_values(expected_value, actual_vars[var_name])
         IN [expected |-> expected_value, actual |-> actual_vars[var_name],
             matched |-> PyBool(cmp[1]), match_type |-> cmp[2]]
    ELSE [expected |-> expected_value, actual |-> None,
          matched |-> "False", match_type |-> Reason("not_extracted")]

\* the record of a variable off the path, marked as a failure
NotOnPathRecordFalse(expected_value, actual_vars, var_name) ==
    [expected |-> expected_value,
     actual |-> IF var_name \in DOMAIN actual_vars THEN actual_vars[var_name] ELSE None,
     matched |-> "False", match_type |-> Reason("not_on_path")]

\* lines 204-211: the record of an expected variable that is not relevant
NotOnPathRecord(expected_value, actual_vars, var_name) ==
    [expected |-> expected_value,
     actual |-> IF var_name \in DOMAIN actual_vars THEN actual_vars[var_name] ELSE None,
     matched |-> "None", match_type |-> Reason("not_on_path")]

\* the counting that forgets the variables that were not extracted
CounterSkipsNotExtracted(expected_value, actual_vars, var_name) ==
    IF var_name \in DOMAIN actual_vars
    THEN LET cmp == compare_values(expected_value, actual_vars[var_name])
         IN IF cmp[1]
            THEN IF cmp[2].label = "partial_match" THEN "total_partial"
                 ELSE "total_matched"
            ELSE "total_missing"
    ELSE "none"

\* lines 187-193 and 201: the counter a relevant variable adds one to
\* ('partial' in reason holds of partial_match alone among the reasons of
\* a match)
CounterOf(expected_value, actual_vars, var_name) ==
    IF var_name \in DOMAIN actual_vars
    THEN LET cmp == compare_values(expected_value, actual_vars[var_name])
         IN IF cmp[1]
            THEN IF cmp[2].label = "partial_match" THEN "total_partial"
                 ELSE "total_matched"
            ELSE "total_missing"
    ELSE "total_missing"

(***************************************************************************)
(* Python floats (IEEE 754 binary64), as far as lines 227-231 use them:    *)
(* the true division of two small non-negative integers and the product    *)
(* of a float with a small positive integer, each rounded to the nearest   *)
(* float, ties to even.  A positive float is its DoublePrecision           *)
(* significant bits, the first of them 1, and the exponent of that first   *)
(* bit; the numbers met here are far from overflow and underflow.          *)
(***************************************************************************)
DoublePrecision == 53

Zero == [zero |-> TRUE, exp |-> 0, bits |-> <<>>]

RECURSIVE BitsOf(_)
BitsOf(n) == IF n = 0 THEN <<>> ELSE BitsOf(n \div 2) \o <<n % 2>>

RECURSIVE Increment(_)
Increment(bits) ==
    IF bits = <<>> THEN <<1>>
    ELSE IF bits[Len(bits)] = 0 THEN SubSeq(bits, 1, Len(bits) - 1) \o <<1>>
    ELSE Increment(SubSeq(bits, 1, Len(bits) - 1)) \o <<0>>

\* the bits of a positive number, the first of them 1 and of weight 2^exp,
\* with sticky telling whether the number has more non-zero bits: rounded
RoundToDouble(bits, exp, sticky) ==
    LET kept == SubSeq(bits, 1, DoublePrecision)
        half == Len(bits) > DoublePrecision /\ bits[DoublePrecision + 1] = 1
        more == sticky \/ \E i \in (DoublePrecision + 2)..Len(bits) : bits[i] = 1
    IN IF ~(half /\ (more \/ kept[DoublePrecision] = 1))
       THEN [zero |-> FALSE, exp |-> exp, bits |-> kept]
       ELSE IF \A i \in 1..DoublePrecision : kept[i] = 1
       THEN [zero |-> FALSE, exp |-> exp + 1,
             bits |-> [i \in 1..DoublePrecision |-> IF i = 1 THEN 1 ELSE 0]]
       ELSE [zero |-> FALSE, exp |-> exp, bits |-> Increment(kept)]

\* n / d scaled by a power of two into [1, 2)
RECURSIVE Normalise(_, _, _)
Normalise(n, d, e) ==
    IF n < d THEN Normalise(2 * n, d, e - 1)
    ELSE IF n >= 2 * d THEN Normalise(n, 2 * d, e + 1)
    ELSE [n |-> n, d |-> d, e |-> e]

\* k more bits of the quotient whose remainder so far is r
RECURSIVE LongDivision(_, _, _, _)
LongDivision(r, d, k, acc) ==
    IF k = 0 THEN [bits |-> acc, rem |-> r]
    ELSE IF 2 * r >= d THEN LongDivision(2 * r - d, d, k - 1, Append(acc, 1))
    ELSE LongDivision(2 * r, d, k - 1, Append(acc, 0))

\* n / d, for integers n >= 0 and d > 0
TrueDivide(n, d) ==
    IF n = 0 THEN Zero
    ELSE LET s == Normalise(n, d, 0)
             q == LongDivision(s.n - s.d, s.d, DoublePrecision, <<1>>)
         IN RoundToDouble(q.bits, s.e, q.rem # 0)

\* the bits of bits * c, from the last bit to the first
RECURSIVE TimesBits(_, _, _, _, _)
TimesBits(bits, c, i, carry, acc) ==
    IF i = 0 THEN BitsOf(carry) \o acc
    ELSE TimesBits(bits, c, i - 1, (bits[i] * c + carry) \div 2,
                   <<(bits[i] * c + carry) % 2>> \o acc)

\* x * c, for a float x >= 0 and an integer c > 0
Times(x, c) ==
    IF x.zero THEN Zero
    ELSE LET product == TimesBits(x.bits, c, DoublePrecision, 0, <<>>)
         IN RoundToDouble(product, x.exp + Len(product) - DoublePrecision, FALSE)

\* x <= y, for floats x >= 0 and y >= 0
FloatLeq(x, y) ==
    \/ x.zero
    \/ /\ ~y.zero
       /\ \/ x.exp < y.exp
          \/ /\ x.exp = y.exp
             /\ \/ x.bits = y.bits
                \/ \E i \in 1..DoublePrecision :
                      /\ x.bits[i] < y.bits[i]
                      /\ \A j \in 1..(i - 1) : x.bits[j] = y.bits[j]

\* the percentage computed with the multiplication before the division
PercentageMultiplyFirst(count, total) ==
    IF total > 0 THEN TrueDivide(count * 100, total) ELSE TrueDivide(100, 1)

\* lines 223-231: (count / total) * 100, and 100.0 when total is 0
Percentage(count, total) ==
    IF total > 0 THEN Times(TrueDivide(count, total), 100) ELSE TrueDivide(100, 1)

\* the variables a persona may expect and the service may extract
VarNames == {"name", "age", "city"}

\* the percentages of every count out of every total that can arise
\* (tabulated once: they are functions of the two numbers alone)
MaxVars == Cardinality(VarNames)
Percentages ==
    [total \in 0..MaxVars |-> [count \in 0..total |-> Percentage(count, total)]]

\* lines 166-173, 187-201, 213-231: match_summary
MatchSummary(relevant, expected_vars, actual_vars) ==
    LET count(c) == Cardinality({k \in DOMAIN relevant :
                                   CounterOf(relevant[k], actual_vars, k) = c})
    IN [total_expected |-> Cardinality(DOMAIN relevant),
        total_matched |-> count("total_matched"),
        total_partial |-> count("total_partial"),
        total_missing |-> count("total_missing"),
        total_extra |-> Cardinality({k \in DOMAIN actual_vars :
                           k \notin SystemVariables /\ k \notin DOMAIN relevant}),
        total_not_on_path |->
            Cardinality(DOMAIN expected_vars) - Cardinality(DOMAIN relevant),
        match_percentage |->
            Percentages[Cardinality(DOMAIN relevant)][count("total_matched")],
        partial_match_percentage |->
            Percentages[Cardinality(DOMAIN relevant)]
                       [count("total_matched") + count("total_partial")]]

\* evaluate_result, given the structure the lookup returned
evaluate_result(res, pers, structure) ==
    LET expected_vars == pers.extracted_vars_expected
        actual_vars == res.final_variables
        visited_nodes == VisitedNodes(res)
        vars_for_path == _get_variables_for_nodes(structure, visited_nodes)
        relevant == RelevantExpectedVars(expected_vars, vars_for_path)
        on_path == [k \in DOMAIN relevant |-> MatchRecord(relevant[k], actual_vars, k)]
        off_path == {k \in DOMAIN expected_vars : k \notin DOMAIN relevant}
        matches == [k \in DOMAIN on_path \cup off_path |->
                       IF k \in off_path
                       THEN NotOnPathRecord(expected_vars[k], actual_vars, k)
                       ELSE on_path[k]]
    IN [returned |-> TRUE,
        persona_id |-> res.persona_id,
        chat_id |-> res.chat_id,
        pathway_completed |-> res.completed,
        end_reason |-> res.end_reason,
        total_turns |-> res.total_turns,
        visited_nodes |-> visited_nodes,
        expected_variables_for_path |-> relevant,
        all_persona_expected_variables |-> expected_vars,
        extracted_variables |-> actual_vars,
        variable_matches |-> matches,
        match_summary |-> MatchSummary(relevant, expected_vars, actual_vars)]

(***************************************************************************)
(* The values the variables of the parts that a specification leaves       *)
(* alone keep throughout.                                                  *)
(***************************************************************************)
NoChat == "no_chat"
NoResult == [returned |-> FALSE]
NoEvaluation == [returned |-> FALSE]
NoReply == [received |-> FALSE]
NoLiveRun ==
    [pc |-> "start", chat_id |-> NoChat, response_data |-> NoReply,
     conversation_log |-> <<>>, turn_count |-> 0, end_reason |-> NoneValue,
     remote_calls |-> <<>>, generator_calls |-> <<>>, result |-> NoResult]

DriverIdle ==
    /\ pc = "idle"
    /\ max_turns = 0
    /\ auto_detect_end = TRUE
    /\ chat_id = NoChat
    /\ response_data = NoReply
    /\ conversation_log = <<>>
    /\ persona_chat_history = <<>>
    /\ turn_count = 0
    /\ end_reason = NoneValue
    /\ consecutive_silent_turns = 0
    /\ result = NoResult
    /\ remote_calls = <<>>
    /\ generator_calls = <<>>
    /\ live_run = NoLiveRun

EvalIdle ==
    /\ persona = [persona_id |-> "persona-1", extracted_vars_expected |-> EmptyDict]
    /\ eval_result = NoResult
    /\ service_structure = [nodes |-> <<>>]
    /\ api_key_set = FALSE
    /\ pathway_cache = EmptyDict
    /\ evaluation = NoEvaluation
    /\ eval_calls = 0
    /\ fetch_calls = 0
    /\ pathway_structure = EmptyStructure

FnIdle == fn_input = <<>> /\ fn_output = <<>>

(***************************************************************************)
(* PathwayRunner.run_conversation: one run against a scripted remote       *)
(* service and a scripted persona generator.  Printing (verbose, debug,    *)
(* printed_final_assistant) changes no state and is left out.              *)
(***************************************************************************)
PROBE == <<"H", "e", "l", "l", "o", "?", " ", "A", "r", "e", " ", "y", "o", "u", " ",
           "s", "t", "i", "l", "l", " ", "t", "h", "e", "r", "e", "?">>

Message(role, content) == [role |-> role, content |-> content]

\* what the scripted service may answer to a send
ChatIds == {"chat-1", "chat-2"}
NodeNames == {"Greeting", "Collect"}
NodeVariables(node) ==
    IF node = "Collect" THEN [k \in {"name"} |-> Str(<<"n", "y">>)] ELSE EmptyDict
\* the history the service reports with a reply: the assistant texts of the
\* reply, or (here only with a reply at the first node that carries a text
\* and does not report completed) a malformed one that gives texts to the
\* wrong role
ReportedHistories(c, a, n) ==
    {[i \in 1..Len(a) |-> Message("assistant", a[i])]}
    \cup (IF ~c /\ a # <<>> /\ n = "Greeting"
          THEN {<<Message("user", <<"H", "i">>), Message("user", <<"o", "k">>)>>}
          ELSE {})
Replies ==
    UNION { { [received |-> TRUE, completed |-> c, assistant_responses |-> a,
               current_node_name |-> n, variables |-> NodeVariables(n),
               chat_history |-> h] : h \in ReportedHistories(c, a, n) } :
            c \in BOOLEAN, a \in {<<>>, <<<<"H", "i">>>>}, n \in NodeNames }

\* what the scripted model may return as message.content
GeneratorOutputs ==
    { <<"o", "k">>,
      <<"U", "s", "e", "r", ":", " ", "G", "O", "O", "D", "B", "Y", "E">>,
      <<"e", "n", "d", "_", "c", "a", "l", "l">>,
      NoneText }

\* the request of _create_chat, and of _send_message: the payload carries the
\* message only when it is given and not empty
CreateRequest == [op |-> "create", chat_id |-> NoChat, payload |-> <<>>]
SendRequest(chat, message) ==
    [op |-> "send", chat_id |-> chat,
     payload |-> IF message # NoneText /\ message # <<>> THEN <<message>> ELSE <<>>]
Call(request, reply) == [request |-> request, reply |-> reply]

\* _generate_persona_response, from the content the model returned
_generate_persona_response(content) ==
    _sanitize_persona_message(IF content = NoneText THEN <<>> ELSE content)

\* the utterances a turn can derive, each with the detector's verdict on it
\* (tabulated once: both are functions of the text alone)
GeneratedUtterance == [content \in GeneratorOutputs |-> _generate_persona_response(content)]
Utterances == {END_CALL, PROBE} \cup {GeneratedUtterance[c] : c \in GeneratorOutputs}
Detected == [m \in Utterances |-> _detect_conversation_end(m)]

\* the test at the return with > for >=
FinalEndReasonStrict(turns, limit, reason) ==
    IF turns > limit /\ reason = NoneValue THEN "max_turns_reached" ELSE reason

\* lines 395-396
FinalEndReason(turns, limit, reason) ==
    IF turns >= limit /\ reason = NoneValue THEN "max_turns_reached" ELSE reason

\* the choice that asks the generator after one silent reply on every turn
UtteranceSourceNeverProbes(silent, turn) ==
    IF silent >= 2 THEN "end_call" ELSE "persona"

\* the choice that probes after one silent reply on the first turn too
UtteranceSourceProbesFirstTurn(silent, turn) ==
    IF silent >= 2 THEN "end_call"
    ELSE IF silent = 1 THEN "probe"
    ELSE "persona"

\* lines 339-345: where the utterance of a turn comes from
UtteranceSource(silent, turn) ==
    IF silent >= 2 THEN "end_call"
    ELSE IF silent = 1 /\ turn > 1 THEN "probe"
    ELSE "persona"

\* the turn start that takes the generator's history from the history the
\* service reported with its reply
TurnStartServiceHistory ==
    LET assistant_responses == response_data.assistant_responses
        silent == IF assistant_responses # <<>> THEN 0
                  ELSE consecutive_silent_turns + 1
    IN [turn |-> turn_count + 1,
        assistant_responses |-> assistant_responses,
        silent |-> silent,
        history |-> persona_chat_history \o response_data.chat_history,
        source |-> UtteranceSource(silent, turn_count + 1)]

\* lines 306-328: the turn up to the choice of the utterance
TurnStart ==
    LET assistant_responses == response_data.assistant_responses
        silent == IF assistant_responses # <<>> THEN 0
                  ELSE consecutive_silent_turns + 1
    IN [turn |-> turn_count + 1,
        assistant_responses |-> assistant_responses,
        silent |-> silent,
        history |-> persona_chat_history \o
                      [i \in 1..Len(assistant_responses) |->
                          Message("assistant", assistant_responses[i])],
        source |-> UtteranceSource(silent, turn_count + 1)]

Init ==
    /\ pc = "start"
    /\ max_turns \in 0..MaxTurns
    /\ auto_detect_end \in BOOLEAN
    /\ chat_id = NoChat
    /\ response_data = NoReply
    /\ conversation_log = <<>>
    /\ persona_chat_history = <<>>
    /\ turn_count = 0
    /\ end_reason = NoneValue
    /\ consecutive_silent_turns = 0
    /\ result = NoResult
    /\ remote_calls = <<>>
    /\ generator_calls = <<>>
    /\ live_run = NoLiveRun
    /\ EvalIdle /\ FnIdle

\* line 290: _create_chat returns the id of the created session, or raises
CreateChat ==
    /\ pc = "start"
    /\ \/ \E id \in ChatIds :
             /\ chat_id' = id
             /\ remote_calls' = Append(remote_calls,
                                    Call(CreateRequest, [received |-> TRUE, chat_id |-> id]))
             /\ pc' = "created"
       \/ /\ remote_calls' = Append(remote_calls, Call(CreateRequest, NoReply))
          /\ pc' = "raised"
          /\ UNCHANGED chat_id
    /\ UNCHANGED <<max_turns, auto_detect_end, response_data, conversation_log,
                   persona_chat_history, turn_count, end_reason,
                   consecutive_silent_turns, result, generator_calls,
                   evalVars, fnVars, live_run>>

\* lines 291-303: the initial send with no message, then the locals
InitialSend ==
    /\ pc = "created"
    /\ \/ \E reply \in Replies :
             /\ response_data' = reply
             /\ remote_calls' = Append(remote_calls,
                                    Call(SendRequest(chat_id, NoneText), reply))
             /\ pc' = "loop"
       \/ /\ remote_calls' = Append(remote_calls,
                                 Call(SendRequest(chat_id, NoneText), NoReply))
          /\ pc' = "raised"
          /\ UNCHANGED response_data
    /\ conversation_log' = <<>>
    /\ persona_chat_history' = <<>>
    /\ turn_count' = 0
    /\ end_reason' = NoneValue
    /\ consecutive_silent_turns' = 0
    /\ UNCHANGED <<max_turns, auto_detect_end, chat_id, result, generator_calls,
                   evalVars, fnVars, live_run>>

\* the send of a turn that, on an end, makes the final send and then the
\* send of the turn as well
SendUtteranceExtraSend(t, user_message) ==
    LET detected == Detected[user_message]
        ends == auto_detect_end /\ detected[1]
        request == SendRequest(chat_id, user_message)
    IN /\ persona_chat_history' = Append(t.history, Message("user", user_message))
       /\ end_reason' = IF ends THEN detected[2] ELSE end_reason
       /\ \/ \E reply \in Replies :
                /\ response_data' = reply
                /\ remote_calls' =
                      IF ends
                      THEN Append(Append(remote_calls, Call(request, reply)),
                                  Call(request, reply))
                      ELSE Append(remote_calls, Call(request, reply))
                /\ conversation_log' =
                      IF ends THEN conversation_log
                      ELSE Append(conversation_log,
                               [turn |-> t.turn,
                                user_message |-> user_message,
                                assistant_responses |-> t.assistant_responses,
                                current_node |-> reply.current_node_name])
                /\ pc' = IF ends THEN "after_loop" ELSE "loop"
          \/ /\ remote_calls' = Append(remote_calls, Call(request, NoReply))
             /\ pc' = "raised"
             /\ UNCHANGED <<response_data, conversation_log>>

\* the send of a turn that logs the turn in which an end was detected too
SendUtteranceLogsFinalTurn(t, user_message) ==
    LET detected == Detected[user_message]
        ends == auto_detect_end /\ detected[1]
        request == SendRequest(chat_id, user_message)
    IN /\ persona_chat_history' = Append(t.history, Message("user", user_message))
       /\ end_reason' = IF ends THEN detected[2] ELSE end_reason
       /\ \/ \E reply \in Replies :
                /\ response_data' = reply
                /\ remote_calls' = Append(remote_calls, Call(request, reply))
                /\ conversation_log' =
                      Append(conversation_log,
                          [turn |-> t.turn,
                           user_message |-> user_message,
                           assistant_responses |-> t.assistant_responses,
                           current_node |-> reply.current_node_name])
                /\ pc' = IF ends THEN "after_loop" ELSE "loop"
          \/ /\ remote_calls' = Append(remote_calls, Call(request, NoReply))
             /\ pc' = "raised"
             /\ UNCHANGED <<response_data, conversation_log>>

\* the send of a turn that leaves the loop on an end without sending the
\* utterance
SendUtteranceNoFinalSend(t, user_message) ==
    LET detected == Detected[user_message]
        ends == auto_detect_end /\ detected[1]
        request == SendRequest(chat_id, user_message)
    IN /\ persona_chat_history' = Append(t.history, Message("user", user_message))
       /\ end_reason' = IF ends THEN detected[2] ELSE end_reason
       /\ IF ends
          THEN /\ pc' = "after_loop"
               /\ UNCHANGED <<response_data, conversation_log, remote_calls>>
          ELSE \/ \E reply \in Replies :
                     /\ response_data' = reply
                     /\ remote_calls' = Append(remote_calls, Call(request, reply))
                     /\ conversation_log' =
                           Append(conversation_log,
                               [turn |-> t.turn,
                                user_message |-> user_message,
                                assistant_responses |-> t.assistant_responses,
                                current_node |-> reply.current_node_name])
                     /\ pc' = "loop"
               \/ /\ remote_calls' = Append(remote_calls, Call(request, NoReply))
                  /\ pc' = "raised"
                  /\ UNCHANGED <<response_data, conversation_log>>

\* the send of a turn with a failure of the service caught: the loop goes on
\* with the reply it had
SendUtteranceSwallowsError(t, user_message) ==
    LET detected == Detected[user_message]
        ends == auto_detect_end /\ detected[1]
        request == SendRequest(chat_id, user_message)
    IN /\ persona_chat_history' = Append(t.history, Message("user", user_message))
       /\ end_reason' = IF ends THEN detected[2] ELSE end_reason
       /\ \/ \E reply \in Replies :
                /\ response_data' = reply
                /\ remote_calls' = Append(remote_calls, Call(request, reply))
                /\ conversation_log' =
                      IF ends THEN conversation_log
                      ELSE Append(conversation_log,
                               [turn |-> t.turn,
                                user_message |-> user_message,
                                assistant_responses |-> t.assistant_responses,
                                current_node |-> reply.current_node_name])
                /\ pc' = IF ends THEN "after_loop" ELSE "loop"
          \/ /\ remote_calls' = Append(remote_calls, Call(request, NoReply))
             /\ pc' = IF ends THEN "after_loop" ELSE "loop"
             /\ UNCHANGED <<response_data, conversation_log>>

\* lines 351-388: the utterance is stored, tested for an end token and sent;
\* an end ends the loop after the send, otherwise the turn is logged
SendUtterance(t, user_message) ==
    LET detected == Detected[user_message]
        ends == auto_detect_end /\ detected[1]
        request == SendRequest(chat_id, user_message)
    IN /\ persona_chat_history' = Append(t.history, Message("user", user_message))
       /\ end_reason' = IF ends THEN detected[2] ELSE end_reason
       /\ \/ \E reply \in Replies :
                /\ response_data' = reply
                /\ remote_calls' = Append(remote_calls, Call(request, reply))
                /\ conversation_log' =
                      IF ends THEN conversation_log
                      ELSE Append(conversation_log,
                               [turn |-> t.turn,
                                user_message |-> user_message,
                                assistant_responses |-> t.assistant_responses,
                                current_node |-> reply.current_node_name])
                /\ pc' = IF ends THEN "after_loop" ELSE "loop"
          \/ /\ remote_calls' = Append(remote_calls, Call(request, NoReply))
             /\ pc' = "raised"
             /\ UNCHANGED <<response_data, conversation_log>>

\* the loop test letting one turn more through
LoopConditionOneMore == ~response_data.completed /\ turn_count <= max_turns

\* line 305: the test of the while loop
LoopCondition == ~response_data.completed /\ turn_count < max_turns

\* lines 305-388: one iteration of the loop
Turn ==
    /\ pc = "loop"
    /\ LoopCondition
    /\ LET t == TurnStart
       IN /\ turn_count' = t.turn
          /\ consecutive_silent_turns' = t.silent
          /\ IF response_data.completed
             THEN \* lines 331-335
                  /\ end_reason' = "pathway_completed"
                  /\ persona_chat_history' = t.history
                  /\ pc' = "after_loop"
                  /\ UNCHANGED <<response_data, conversation_log, remote_calls,
                                 generator_calls>>
             ELSE CASE t.source = "end_call" ->
                         /\ SendUtterance(t, END_CALL)
                         /\ UNCHANGED generator_calls
                    [] t.source = "probe" ->
                         /\ SendUtterance(t, PROBE)
                         /\ UNCHANGED generator_calls
                    [] t.source = "persona" ->
                         \/ \E content \in GeneratorOutputs :
                               /\ generator_calls' =
                                     Append(generator_calls,
                                         [chat_history |-> t.history,
                                          returned |-> TRUE, content |-> content])
                               /\ SendUtterance(t, GeneratedUtterance[content])
                         \/ /\ generator_calls' =
                                  Append(generator_calls,
                                      [chat_history |-> t.history,
                                       returned |-> FALSE, content |-> NoneText])
                            /\ persona_chat_history' = t.history
                            /\ pc' = "raised"
                            /\ UNCHANGED <<response_data, conversation_log,
                                           remote_calls, end_reason>>
    /\ UNCHANGED <<max_turns, auto_detect_end, chat_id, result, evalVars, fnVars, live_run>>

\* lines 395-426: after the loop, the end reason and the returned dictionary
Return ==
    /\ \/ pc = "after_loop"
       \/ pc = "loop" /\ ~LoopCondition
    /\ end_reason' = FinalEndReason(turn_count, max_turns, end_reason)
    /\ result' = [returned |-> TRUE,
                  persona_id |-> persona.persona_id,
                  chat_id |-> chat_id,
                  pathway_id |-> "pathway-1",
                  completed |-> response_data.completed,
                  end_reason |-> end_reason',
                  total_turns |-> turn_count,
                  final_node |-> response_data.current_node_name,
                  final_variables |-> response_data.variables,
                  conversation_log |-> conversation_log,
                  full_chat_history |-> response_data.chat_history]
    /\ pc' = "returned"
    /\ UNCHANGED <<max_turns, auto_detect_end, chat_id, response_data,
                   conversation_log, persona_chat_history, turn_count,
                   consecutive_silent_turns, remote_calls, generator_calls,
                   evalVars, fnVars, live_run>>

Next == CreateChat \/ InitialSend \/ Turn \/ Return
Spec == Init /\ [][Next]_vars

\* the run as the interpreter executes it: a step that can be taken is taken,
\* every call made returns or raises
LiveSpec == Spec /\ WF_vars(Next)

(***************************************************************************)
(* evaluate_result applied, up to MaxEvals times in one process, to a      *)
(* drawn persona, conversation result and pathway structure.               *)
(***************************************************************************)
LogNodes == {"Greeting"}
FinalNodes == {NoneValue, "Collect"}

\* the values a persona may expect of each variable, and the values the
\* service may have extracted for it
ExpectedChoices ==
    [name |-> {None, Str(<<"n", "y">>)},
     age |-> {Num(5, 1)},
     city |-> {Str(<<"n", "y">>)}]
ActualChoices ==
    [name |-> {None, Str(<<"N", "Y", " ">>), Str(<<"n", "y", ",", " ", "u", "s">>),
               Str(<<"5">>)},
     age |-> {None, Str(<<"5">>)},
     city |-> {Str(<<" ">>)}]

\* the dictionaries that give some of the variables one of their values
Dicts(choices) ==
    UNION { {d \in [s -> UNION {choices[k] : k \in s}] : \A k \in s : d[k] \in choices[k]} :
              s \in SUBSET VarNames }

VarEntry(name) == <<name, "string", "description">>
Structures ==
    { [nodes |-> << [name |-> "Greeting", extractVars |-> <<VarEntry("name")>>],
                    [name |-> "Collect", extractVars |-> <<VarEntry("age")>>] >>],
      [nodes |-> << [name |-> "Greeting", extractVars |-> <<>>],
                    [name |-> "Collect",
                     extractVars |-> <<VarEntry("name"), <<>>, VarEntry("age")>>] >>],
      [nodes |-> << [name |-> "Greeting", extractVars |-> <<>>],
                    [name |-> "Unnamed", extractVars |-> <<VarEntry("name")>>] >>] }

LogEntry(turn, node) ==
    [turn |-> turn, user_message |-> <<"h", "i">>, assistant_responses |-> <<>>,
     current_node |-> node]
Logs == UNION { {[i \in 1..n |-> LogEntry(i, nodes[i])] : nodes \in [1..n -> LogNodes]} :
                  n \in 0..MaxLog }

Results ==
    { [returned |-> TRUE, persona_id |-> "persona-1", chat_id |-> "chat-1",
       pathway_id |-> "pathway-1", completed |-> FALSE, end_reason |-> NoneValue,
       total_turns |-> Len(log), final_node |-> final,
       final_variables |-> actual, conversation_log |-> log,
       full_chat_history |-> <<>>] :
        log \in Logs, final \in FinalNodes,
        actual \in { [k \in DOMAIN d \cup {"call_id"} |->
                         IF k = "call_id" THEN Str(<<"c", "1">>) ELSE d[k]] :
                       d \in Dicts(ActualChoices) } }

EvalInit ==
    /\ persona \in {[persona_id |-> "persona-1", extracted_vars_expected |-> d] :
                      d \in Dicts(ExpectedChoices)}
    /\ eval_result \in Results
    /\ service_structure \in Structures
    /\ api_key_set \in BOOLEAN
    /\ pathway_cache = EmptyDict
    /\ evaluation = NoEvaluation
    /\ eval_calls = 0
    /\ fetch_calls = 0
    /\ pathway_structure = EmptyStructure
    /\ DriverIdle /\ FnIdle

\* one call of evaluate_result(result, persona), with the lookup it makes
Evaluate ==
    /\ eval_calls < MaxEvals
    /\ \E outcome \in FetchOutcomes :
          LET lookup == IF eval_result.pathway_id # NoneValue
                        THEN _fetch_pathway_structure(eval_result.pathway_id,
                                 pathway_cache, api_key_set, service_structure, outcome)
                        ELSE [structure |-> EmptyStructure, cache |-> pathway_cache,
                              fetched |-> FALSE]
          IN /\ evaluation' = evaluate_result(eval_result, persona, lookup.structure)
             /\ pathway_structure' = lookup.structure
             /\ pathway_cache' = lookup.cache
             /\ fetch_calls' = fetch_calls + (IF lookup.fetched THEN 1 ELSE 0)
    /\ eval_calls' = eval_calls + 1
    /\ UNCHANGED <<persona, eval_result, service_structure, api_key_set,
                   driverVars, fnVars>>

EvalNext == Evaluate
EvalSpec == EvalInit /\ [][EvalNext]_vars

(***************************************************************************)
(* A process that evaluates up to MaxCalls results, of several pathways,   *)
(* one after the other, while the service's copy of a pathway may change   *)
(* between the calls.                                                      *)
(***************************************************************************)
PathwayIds == {"pathway-1", "pathway-2", NoneValue}

CachePersona ==
    [persona_id |-> "persona-1",
     extracted_vars_expected |->
        [k \in {"name", "age"} |-> IF k = "name" THEN Str(<<"n", "y">>) ELSE Num(5, 1)]]

CacheResult(id) ==
    [returned |-> TRUE, persona_id |-> "persona-1", chat_id |-> "chat-1",
     pathway_id |-> id, completed |-> FALSE, end_reason |-> "max_turns_reached",
     total_turns |-> 1, final_node |-> NoneValue,
     final_variables |-> [k \in {"name"} |-> Str(<<"N", "Y", " ">>)],
     conversation_log |-> <<LogEntry(1, "Greeting")>>,
     full_chat_history |-> <<>>]

CacheInit ==
    /\ persona = CachePersona
    /\ eval_result = NoResult
    /\ service_structure \in Structures
    /\ api_key_set \in BOOLEAN
    /\ pathway_cache = EmptyDict
    /\ evaluation = NoEvaluation
    /\ eval_calls = 0
    /\ fetch_calls = 0
    /\ pathway_structure = EmptyStructure
    /\ DriverIdle /\ FnIdle

\* one call of evaluate_result, for a result of any of the pathways, against
\* whatever the service holds at that moment
CacheEvaluate ==
    /\ eval_calls < MaxCalls
    /\ \E id \in PathwayIds, remote \in Structures, outcome \in FetchOutcomes :
          LET lookup == IF id # NoneValue
                        THEN _fetch_pathway_structure(id, pathway_cache, api_key_set,
                                                      remote, outcome)
                        ELSE [structure |-> EmptyStructure, cache |-> pathway_cache,
                              fetched |-> FALSE]
          IN /\ eval_result' = CacheResult(id)
             /\ service_structure' = remote
             /\ evaluation' = evaluate_result(CacheResult(id), persona, lookup.structure)
             /\ pathway_structure' = lookup.structure
             /\ pathway_cache' = lookup.cache
             /\ fetch_calls' = fetch_calls + (IF lookup.fetched THEN 1 ELSE 0)
    /\ eval_calls' = eval_calls + 1
    /\ UNCHANGED <<persona, api_key_set, driverVars, fnVars>>

CacheNext == CacheEvaluate
CacheSpec == CacheInit /\ [][CacheNext]_vars

(***************************************************************************)
(* run_test: one conversation of the driver, then the evaluation of the    *)
(* result it returned.                                                     *)
(***************************************************************************)
PipelinePersona ==
    [persona_id |-> "persona-1",
     extracted_vars_expected |-> [k \in {"name"} |-> Str(<<"n", "y">>)]]
PipelineStructure ==
    [nodes |-> << [name |-> "Greeting", extractVars |-> <<VarEntry("name")>>],
                  [name |-> "Collect", extractVars |-> <<VarEntry("age")>>] >>]

PipelineInit ==
    /\ pc = "start"
    /\ max_turns \in 0..MaxTurns
    /\ auto_detect_end \in BOOLEAN
    /\ chat_id = NoChat
    /\ response_data = NoReply
    /\ conversation_log = <<>>
    /\ persona_chat_history = <<>>
    /\ turn_count = 0
    /\ end_reason = NoneValue
    /\ consecutive_silent_turns = 0
    /\ result = NoResult
    /\ remote_calls = <<>>
    /\ generator_calls = <<>>
    /\ live_run = NoLiveRun
    /\ persona = PipelinePersona
    /\ eval_result = NoResult
    /\ service_structure = PipelineStructure
    /\ api_key_set = TRUE
    /\ pathway_cache = EmptyDict
    /\ evaluation = NoEvaluation
    /\ eval_calls = 0
    /\ fetch_calls = 0
    /\ pathway_structure = EmptyStructure
    /\ FnIdle

\* evaluate_result(result, persona) on the result the driver returned
EvaluateRun ==
    /\ pc = "returned"
    /\ \E outcome \in FetchOutcomes :
          LET lookup == IF result.pathway_id # NoneValue
                        THEN _fetch_pathway_structure(result.pathway_id,
                                 pathway_cache, api_key_set, service_structure, outcome)
                        ELSE [structure |-> EmptyStructure, cache |-> pathway_cache,
                              fetched |-> FALSE]
          IN /\ evaluation' = evaluate_result(result, persona, lookup.structure)
             /\ pathway_structure' = lookup.structure
             /\ pathway_cache' = lookup.cache
             /\ fetch_calls' = fetch_calls + (IF lookup.fetched THEN 1 ELSE 0)
    /\ eval_result' = result
    /\ eval_calls' = eval_calls + 1
    /\ pc' = "evaluated"
    /\ UNCHANGED <<max_turns, auto_detect_end, chat_id, response_data,
                   conversation_log, persona_chat_history, turn_count, end_reason,
                   consecutive_silent_turns, result, remote_calls, generator_calls,
                   persona, service_structure, api_key_set, fnVars, live_run>>

PipelineNext == CreateChat \/ InitialSend \/ Turn \/ Return \/ EvaluateRun
PipelineSpec == PipelineInit /\ [][PipelineNext]_vars

(***************************************************************************)
(* Evaluations of results of one pathway running at the same time, as the  *)
(* sessions of the app do: each is a thread in evaluate_result, and the    *)
(* threads share PathwayEvaluator._pathway_cache.  A thread can be         *)
(* pre-empted between the membership test, the request and the store of    *)
(* _fetch_pathway_structure.  Here pc, pathway_structure and evaluation    *)
(* hold one value per thread.                                              *)
(***************************************************************************)
Workers == 1..MaxWorkers
SharedPathway == "pathway-1"

ConcurrentInit ==
    /\ pc = [w \in Workers |-> "check"]
    /\ pathway_structure = [w \in Workers |-> EmptyStructure]
    /\ evaluation = [w \in Workers |-> NoEvaluation]
    /\ persona = CachePersona
    /\ eval_result = CacheResult(SharedPathway)
    /\ service_structure \in Structures
    /\ api_key_set \in BOOLEAN
    /\ pathway_cache = EmptyDict
    /\ eval_calls = 0
    /\ fetch_calls = 0
    /\ max_turns = 0
    /\ auto_detect_end = TRUE
    /\ chat_id = NoChat
    /\ response_data = NoReply
    /\ conversation_log = <<>>
    /\ persona_chat_history = <<>>
    /\ turn_count = 0
    /\ end_reason = NoneValue
    /\ consecutive_silent_turns = 0
    /\ result = NoResult
    /\ remote_calls = <<>>
    /\ generator_calls = <<>>
    /\ live_run = NoLiveRun
    /\ FnIdle

\* what no step of a lookup or of an evaluation writes
ArgumentsUnchanged ==
    UNCHANGED <<persona, eval_result, api_key_set, max_turns, auto_detect_end,
                chat_id, response_data, conversation_log, persona_chat_history,
                turn_count, end_reason, consecutive_silent_turns, result,
                remote_calls, generator_calls, fnVars, live_run>>

\* lines 65-70: the membership test, the cached entry on a hit, the empty
\* structure without a key
CheckCache(w) ==
    /\ pc[w] = "check"
    /\ IF eval_result.pathway_id \in DOMAIN pathway_cache
       THEN /\ pathway_structure' =
                  [pathway_structure EXCEPT ![w] = pathway_cache[eval_result.pathway_id]]
            /\ pc' = [pc EXCEPT ![w] = "evaluate"]
       ELSE IF ~api_key_set
       THEN /\ pathway_structure' = [pathway_structure EXCEPT ![w] = EmptyStructure]
            /\ pc' = [pc EXCEPT ![w] = "evaluate"]
       ELSE /\ pc' = [pc EXCEPT ![w] = "fetch"]
            /\ UNCHANGED pathway_structure
    /\ UNCHANGED <<pathway_cache, fetch_calls, service_structure, evaluation, eval_calls>>
    /\ ArgumentsUnchanged

\* lines 72-78 and 82-85: the request, answered with what the service holds
\* at that moment, or failing
FetchStructure(w) ==
    /\ pc[w] = "fetch"
    /\ \E remote \in Structures, outcome \in FetchOutcomes :
          /\ service_structure' = remote
          /\ IF outcome = "ok"
             THEN /\ pathway_structure' = [pathway_structure EXCEPT ![w] = remote]
                  /\ pc' = [pc EXCEPT ![w] = "store"]
             ELSE /\ pathway_structure' = [pathway_structure EXCEPT ![w] = EmptyStructure]
                  /\ pc' = [pc EXCEPT ![w] = "evaluate"]
    /\ fetch_calls' = fetch_calls + 1
    /\ UNCHANGED <<pathway_cache, evaluation, eval_calls>>
    /\ ArgumentsUnchanged

\* lines 80-81: the store of the fetched structure
StoreStructure(w) ==
    /\ pc[w] = "store"
    /\ pathway_cache' =
          [id \in DOMAIN pathway_cache \cup {eval_result.pathway_id} |->
              IF id = eval_result.pathway_id THEN pathway_structure[w]
              ELSE pathway_cache[id]]
    /\ pc' = [pc EXCEPT ![w] = "evaluate"]
    /\ UNCHANGED <<pathway_structure, fetch_calls, service_structure, evaluation,
                   eval_calls>>
    /\ ArgumentsUnchanged

\* lines 146-233: the rest of evaluate_result, on the structure looked up
EvaluateLookedUp(w) ==
    /\ pc[w] = "evaluate"
    /\ evaluation' =
          [evaluation EXCEPT ![w] = evaluate_result(eval_result, persona,
                                                    pathway_structure[w])]
    /\ eval_calls' = eval_calls + 1
    /\ pc' = [pc EXCEPT ![w] = "done"]
    /\ UNCHANGED <<pathway_structure, pathway_cache, fetch_calls, service_structure>>
    /\ ArgumentsUnchanged

ConcurrentNext ==
    \E w \in Workers :
        CheckCache(w) \/ FetchStructure(w) \/ StoreStructure(w) \/ EvaluateLookedUp(w)
ConcurrentSpec == ConcurrentInit /\ [][ConcurrentNext]_vars

(***************************************************************************)
(* app.run_conversation_with_live_updates, run against the scripted        *)
(* service and the scripted generator of a returned run of run_conversation*)
(* with end detection enabled: its k-th remote call gets the reply of that *)
(* run's k-th call and its j-th generator call the content of that run's   *)
(* j-th generator call.  A call for which the script holds no answer ends  *)
(* the comparison (off_script).  The updates of the display change no      *)
(* state of the run and are left out.                                      *)
(***************************************************************************)
BothInit == Init /\ auto_detect_end

LiveUnchanged ==
    UNCHANGED <<pc, max_turns, auto_detect_end, chat_id, response_data,
                conversation_log, persona_chat_history, turn_count, end_reason,
                consecutive_silent_turns, result, remote_calls, generator_calls,
                evalVars, fnVars>>

\* line 125
LiveCreateChat ==
    /\ pc = "returned"
    /\ live_run.pc = "start"
    /\ live_run' =
          [live_run EXCEPT
             !.chat_id = remote_calls[1].reply.chat_id,
             !.remote_calls = <<Call(CreateRequest, remote_calls[1].reply)>>,
             !.pc = "created"]
    /\ LiveUnchanged

\* lines 126-131
LiveInitialSend ==
    /\ pc = "returned"
    /\ live_run.pc = "created"
    /\ live_run' =
          [live_run EXCEPT
             !.response_data = remote_calls[2].reply,
             !.remote_calls =
                 Append(@, Call(SendRequest(live_run.chat_id, NoneText),
                                remote_calls[2].reply)),
             !.pc = "loop"]
    /\ LiveUnchanged

\* line 133: the test of the while loop
LiveLoopCondition ==
    ~live_run.response_data.completed /\ live_run.turn_count < max_turns

\* lines 133-196: one iteration of the loop
LiveTurn ==
    /\ pc = "returned"
    /\ live_run.pc = "loop"
    /\ LiveLoopCondition
    /\ LET turn == live_run.turn_count + 1
           assistant_responses == live_run.response_data.assistant_responses
           chat_history == live_run.response_data.chat_history
           j == Len(live_run.generator_calls) + 1
           k == Len(live_run.remote_calls) + 1
       IN IF j > Len(generator_calls)
          THEN live_run' =
                  [live_run EXCEPT
                     !.turn_count = turn,
                     !.generator_calls =
                         Append(@, [chat_history |-> chat_history,
                                    returned |-> FALSE, content |-> NoneText]),
                     !.pc = "off_script"]
          ELSE LET content == generator_calls[j].content
                   user_message == GeneratedUtterance[content]
                   detected == Detected[user_message]
                   asked == Append(live_run.generator_calls,
                                   [chat_history |-> chat_history,
                                    returned |-> TRUE, content |-> content])
                   request == SendRequest(live_run.chat_id, user_message)
               IN IF detected[1]
                  THEN \* lines 174-178: the loop is left without a send
                       live_run' =
                          [live_run EXCEPT
                             !.turn_count = turn,
                             !.generator_calls = asked,
                             !.end_reason = detected[2],
                             !.pc = "after_loop"]
                  ELSE IF k > Len(remote_calls)
                  THEN live_run' =
                          [live_run EXCEPT
                             !.turn_count = turn,
                             !.generator_calls = asked,
                             !.remote_calls = Append(@, Call(request, NoReply)),
                             !.pc = "off_script"]
                  ELSE live_run' =
                          [live_run EXCEPT
                             !.turn_count = turn,
                             !.generator_calls = asked,
                             !.response_data = remote_calls[k].reply,
                             !.remote_calls =
                                 Append(@, Call(request, remote_calls[k].reply)),
                             !.conversation_log =
                                 Append(@, [turn |-> turn,
                                            user_message |-> user_message,
                                            assistant_responses |-> assistant_responses,
                                            current_node |->
                                                remote_calls[k].reply.current_node_name])]
    /\ LiveUnchanged

\* lines 205-221
LiveReturn ==
    /\ pc = "returned"
    /\ \/ live_run.pc = "after_loop"
       \/ live_run.pc = "loop" /\ ~LiveLoopCondition
    /\ LET reason == FinalEndReason(live_run.turn_count, max_turns, live_run.end_reason)
       IN live_run' =
             [live_run EXCEPT
                !.end_reason = reason,
                !.result = [returned |-> TRUE,
                            persona_id |-> persona.persona_id,
                            chat_id |-> live_run.chat_id,
                            pathway_id |-> "pathway-1",
                            completed |-> live_run.response_data.completed,
                            end_reason |-> reason,
                            total_turns |-> live_run.turn_count,
                            final_node |-> live_run.response_data.current_node_name,
                            final_variables |-> live_run.response_data.variables,
                            conversation_log |-> live_run.conversation_log,
                            full_chat_history |-> live_run.response_data.chat_history],
                !.pc = "returned"]
    /\ LiveUnchanged

BothNext ==
    \/ CreateChat \/ InitialSend \/ Turn \/ Return
    \/ LiveCreateChat \/ LiveInitialSend \/ LiveTurn \/ LiveReturn
BothSpec == BothInit /\ [][BothNext]_vars

(***************************************************************************)
(* The termination detector applied to drawn utterances.                   *)
(***************************************************************************)
DetectPieces ==
    { END_CALL, lower(END_CALL), <<"E", "n", "d", "_", "c", "a", "L", "L">>,
      GOODBYE, lower(GOODBYE), <<"G", "o", "o", "d">>, <<"b", "y", "e">>,
      <<"E", "N", "D", "_">>, <<"C", "A", "L", "L">>, <<"E", "N", "D", " ">>,
      <<" ">>, <<"o", "k">> }
DetectInputs == Concatenations(DetectPieces, MaxPieces)

DetectInit ==
    /\ fn_input \in DetectInputs
    /\ fn_output = <<>>
    /\ DriverIdle /\ EvalIdle

DetectCall ==
    /\ fn_output = <<>>
    /\ fn_output' = <<_detect_conversation_end(fn_input)>>
    /\ UNCHANGED <<fn_input, driverVars, evalVars>>

DetectNext == DetectCall
DetectSpec == DetectInit /\ [][DetectNext]_vars

(***************************************************************************)
(* The utterance sanitizer applied to drawn generator outputs.             *)
(***************************************************************************)
SanitizePieces ==
    { <<" ">>, <<"\n">>, <<"\r", "\n">>, <<"\t">>, <<":">>,
      <<"U", "s", "e", "r", ":">>, <<"u", "s", "e", "r">>,
      <<"A", "S", "S", "I", "S", "T", "A", "N", "T", " ", ":", " ">>,
      <<"a", "s", "s", "i", "s", "t", "a", "n", "t">>,
      <<"(", "B", "l", "a", "n", "d", ")">>,
      <<"h", "i">>, <<"u", "s">> }
SanitizeInputs == Concatenations(SanitizePieces, MaxPieces) \cup {NoneText}

SanitizeInit ==
    /\ fn_input \in SanitizeInputs
    /\ fn_output = <<>>
    /\ DriverIdle /\ EvalIdle

SanitizeCall ==
    /\ fn_output = <<>>
    /\ fn_output' = <<_sanitize_persona_message(fn_input)>>
    /\ UNCHANGED <<fn_input, driverVars, evalVars>>

SanitizeNext == SanitizeCall
SanitizeSpec == SanitizeInit /\ [][SanitizeNext]_vars

(***************************************************************************)
(* The value comparator applied to drawn pairs of values.                  *)
(***************************************************************************)
CompareTexts ==
    { <<>>, <<" ">>, <<"5">>, <<"5", ".", "0">>, <<"0", "5">>, <<" ", "5", " ">>,
      <<"+", "5">>, <<"1">>, <<"1", "0">>, <<"1", "e", "1">>, <<"0", ".", "5">>,
      <<"N", "e", "w", " ", "Y", "o", "r", "k">>,
      <<"n", "e", "w", " ", "y", "o", "r", "k", ",", " ", "n", "y">>,
      <<"N", "Y">>, <<"n", "y", " ">>, <<"1", "e">>, <<".">>, <<"5", " ", "5">> }
CompareNumbers == {Num(5, 1), Num(10, 1), Num(1, 2), Num(0, 1), Num(10, 2)}
CompareValues == {None} \cup {Str(s) : s \in CompareTexts} \cup CompareNumbers

CompareInit ==
    /\ fn_input \in CompareValues \X CompareValues
    /\ fn_output = <<>>
    /\ DriverIdle /\ EvalIdle

CompareCall ==
    /\ fn_output = <<>>
    /\ fn_output' = <<compare_values(fn_input[1], fn_input[2])>>
    /\ UNCHANGED <<fn_input, driverVars, evalVars>>

\* a second call, with the two values the other way round
CompareSwapped ==
    /\ Len(fn_output) = 1
    /\ fn_output' = Append(fn_output, compare_values(fn_input[2], fn_input[1]))
    /\ UNCHANGED <<fn_input, driverVars, evalVars>>

CompareNext == CompareCall \/ CompareSwapped
CompareSpec == CompareInit /\ [][CompareNext]_vars

(***************************************************************************)
(* Claims about the value comparator (CompareSpec).                        *)
(***************************************************************************)
TrimLower(v) == IF v.type = "str" THEN lower(strip(v.text)) ELSE <<>>

EqualAfterTrimLower(e, a) ==
    \/ e.type = "str" /\ a.type = "str" /\ TrimLower(e) = TrimLower(a)
    \/ e.type = "number" /\ a.type = "number" /\ e.num * a.den = a.num * e.den

OneContainsTheOther(e, a) ==
    /\ e.type = "str" /\ a.type = "str"
    /\ \/ Contains(TrimLower(e), TrimLower(a))
       \/ Contains(TrimLower(a), TrimLower(e))

NumericallyEqual(e, a) ==
    /\ float(e).ok /\ float(a).ok
    /\ float(e).num * float(a).den = float(a).num * float(e).den

\* the verdict and the reason of the first applicable rule, in the order
\* the rules are stated
FirstApplicableRule(e, a) ==
    IF e = None /\ a = None THEN <<TRUE, "both_none">>
    ELSE IF e = None \/ a = None THEN <<FALSE, "one_none">>
    ELSE IF EqualAfterTrimLower(e, a) THEN <<TRUE, "exact_match">>
    ELSE IF OneContainsTheOther(e, a) THEN <<TRUE, "partial_match">>
    ELSE IF NumericallyEqual(e, a) THEN <<TRUE, "numeric_match">>
    ELSE <<FALSE, "mismatch">>

\* C6: compare_values returns the verdict and the reason of the first
\* applicable rule (both null, one null, equal after trim+lowercase, one
\* text contains the other, numerically equal, mismatch); compare(x, x)
\* matches for every non-null x, compare(None, v) never matches for a
\* non-null v, and compare("5", 5) is numeric_match.
C6_FirstApplicableRule ==
    fn_output # <<>> =>
        LET e == fn_input[1]
            a == fn_input[2]
            out == fn_output[1]
        IN /\ out[1] = FirstApplicableRule(e, a)[1]
           /\ out[2].label = FirstApplicableRule(e, a)[2]
           /\ (e = a /\ e # None) => out[1]
           /\ (e = None /\ a # None) => ~out[1]
           /\ (e = Str(<<"5">>) /\ a = Num(5, 1))
                 => out = <<TRUE, Reason("numeric_match")>>

\* two texts that are numerically equal, differ after trim+lowercase and do
\* not contain each other: the comparator has reached its last matching rule
C6_Witness ==
    /\ fn_output # <<>>
    /\ fn_input[1].type = "str" /\ fn_input[2].type = "str"
    /\ ~EqualAfterTrimLower(fn_input[1], fn_input[2])
    /\ ~OneContainsTheOther(fn_input[1], fn_input[2])
    /\ fn_output[1] = <<TRUE, Reason("numeric_match")>>

(***************************************************************************)
(* Claims about the termination detector (DetectSpec).                     *)
(***************************************************************************)
\* the text holds the token, each letter in either case
ContainsAnyCase(s, token) ==
    \E i \in 1..(Len(s) - Len(token) + 1) :
        \A k \in 1..Len(token) : s[i + k - 1] \in {token[k], LowerChar(token[k])}

\* C7: the detector returns (True, unsuccessful) iff the utterance holds
\* END_CALL in any letter case, (True, natural) iff it holds GOODBYE in any
\* letter case and not END_CALL, and (False, None) otherwise.
C7_DetectorVerdict ==
    fn_output # <<>> =>
        LET hard == ContainsAnyCase(fn_input, END_CALL)
            soft == ContainsAnyCase(fn_input, GOODBYE)
            out == fn_output[1]
        IN /\ (out = <<TRUE, "user_ended_call_unsuccessfully">>) <=> hard
           /\ (out = <<TRUE, "user_ended_call_naturally">>) <=> (soft /\ ~hard)
           /\ (out = <<FALSE, NoneValue>>) <=> (~soft /\ ~hard)

\* an utterance with both tokens, GOODBYE first and in lower case
C7_Witness ==
    /\ fn_output # <<>>
    /\ Len(fn_input) > Len(GOODBYE)
    /\ SubSeq(fn_input, 1, Len(GOODBYE)) = lower(GOODBYE)
    /\ ContainsAnyCase(fn_input, END_CALL)
    /\ fn_output[1] = <<TRUE, "user_ended_call_unsuccessfully">>

(***************************************************************************)
(* Claims about the utterance sanitizer (SanitizeSpec).                    *)
(***************************************************************************)
IsBlank(m) == m = NoneText \/ \A i \in 1..Len(m) : m[i] \in Whitespace

\* the line of m that holds m's first non-whitespace character, trimmed
FirstLineTrimmed(m) ==
    LET first == CHOOSE i \in 1..Len(m) :
                     /\ m[i] \notin Whitespace
                     /\ \A j \in 1..(i - 1) : m[j] \in Whitespace
        ends == {j \in first..(Len(m) + 1) : j = Len(m) + 1 \/ m[j] \in LineBreaks}
    IN strip(SubSeq(m, first, (CHOOSE j \in ends : \A k \in ends : j <= k) - 1))

\* line[k] is the colon that ends a leading speaker label
IsLabelColon(line, k) ==
    /\ line[k] = ":"
    /\ LET head == lower(strip(SubSeq(line, 1, k - 1)))
           n == Len(head)
       IN \/ head = ROLE_USER
          \/ head = ROLE_ASSISTANT
          \/ /\ n >= Len(ROLE_BLAND) + Len(ROLE_ASSISTANT)
             /\ SubSeq(head, 1, Len(ROLE_BLAND)) = ROLE_BLAND
             /\ SubSeq(head, n - Len(ROLE_ASSISTANT) + 1, n) = ROLE_ASSISTANT
             /\ \A i \in (Len(ROLE_BLAND) + 1)..(n - Len(ROLE_ASSISTANT)) :
                    head[i] \in Whitespace

HasLabel(line) == \E k \in 1..Len(line) : IsLabelColon(line, k)

AfterLabel(line) ==
    strip(SubSeq(line, (CHOOSE k \in 1..Len(line) : IsLabelColon(line, k)) + 1,
                 Len(line)))

\* C8: the sanitizer returns a non-empty single-line text: the first
\* non-blank line of the input, trimmed, with one leading speaker label
\* removed, or the fallback phrase when the input is blank (or None) or
\* nothing remains after the label.
C8_SanitizedUtterance ==
    fn_output # <<>> =>
        LET out == fn_output[1]
            line == FirstLineTrimmed(fn_input)
        IN /\ out # <<>>
           /\ \A i \in 1..Len(out) : out[i] \notin LineBreaks
           /\ IsBlank(fn_input) => out = FALLBACK
           /\ (~IsBlank(fn_input) /\ ~HasLabel(line)) => out = line
           /\ (~IsBlank(fn_input) /\ HasLabel(line)) =>
                 out = IF AfterLabel(line) = <<>> THEN FALLBACK ELSE AfterLabel(line)

\* a multi-line input whose first non-blank line is a label followed by text
C8_Witness ==
    /\ fn_output # <<>>
    /\ fn_input # NoneText
    /\ \E i \in 1..Len(fn_input) : fn_input[i] \in LineBreaks
    /\ ~IsBlank(fn_input)
    /\ HasLabel(FirstLineTrimmed(fn_input))
    /\ fn_output[1] = <<"h", "i">>

(***************************************************************************)
(* Claims about evaluate_result (EvalSpec).                                *)
(***************************************************************************)
Expected == persona.extracted_vars_expected
Summary == evaluation.match_summary
Matches == evaluation.variable_matches

\* the variable names declared, in the structure the lookup returned, on a
\* node whose name is a visited node
DeclaredOnPath ==
    { v \in VarNames :
        \E i \in 1..Len(pathway_structure.nodes) :
            /\ pathway_structure.nodes[i].name \in evaluation.visited_nodes
            /\ \E j \in 1..Len(pathway_structure.nodes[i].extractVars) :
                  /\ pathway_structure.nodes[i].extractVars[j] # <<>>
                  /\ pathway_structure.nodes[i].extractVars[j][1] = v }

NotOnPath == {k \in DOMAIN Matches : Matches[k].match_type.label = "not_on_path"}

\* C3: total_matched + total_partial + total_missing == total_expected in
\* the match_summary of every evaluation.
C3_CountsAddUp ==
    evaluation.returned =>
        Summary.total_matched + Summary.total_partial + Summary.total_missing
            = Summary.total_expected

\* one variable matched partially and one missing because it was not extracted
C3_Witness ==
    /\ evaluation.returned
    /\ Summary.total_partial = 1
    /\ Summary.total_missing = 1
    /\ \E k \in DOMAIN Matches : Matches[k].match_type.label = "not_extracted"

\* C4: total_expected + total_not_on_path is the number of expected
\* variables of the persona, and total_not_on_path is the number of records
\* with match_type not_on_path.
C4_ExpectedSplit ==
    evaluation.returned =>
        /\ Summary.total_expected + Summary.total_not_on_path
              = Cardinality(DOMAIN Expected)
        /\ Cardinality(NotOnPath) = Summary.total_not_on_path

\* one expected variable on the path and one off it
C4_Witness ==
    /\ evaluation.returned
    /\ Summary.total_expected = 1
    /\ Summary.total_not_on_path = 1
    /\ Cardinality(DOMAIN Expected) = 2

\* C5 as stated: every record's match_type is exact_match, partial_match,
\* numeric_match, not_extracted, not_on_path or mismatch-prefixed, null
\* values included.
C5_Original ==
    evaluation.returned =>
        \A k \in DOMAIN Matches :
            Matches[k].match_type.label \in
                {"exact_match", "partial_match", "numeric_match",
                 "not_extracted", "not_on_path", "mismatch"}

\* C5, amended: every record's match_type is exact_match, partial_match,
\* numeric_match, not_extracted, not_on_path, both_none, or prefixed with
\* mismatch or one_none; both_none and one_none are the types of a scored
\* variable whose expected and extracted values are both null, or exactly
\* one of them is.
C5_MatchTypes ==
    evaluation.returned =>
        \A k \in DOMAIN Matches :
            LET rec == Matches[k]
                label == rec.match_type.label
                scored == label # "not_on_path" /\ label # "not_extracted"
            IN /\ label \in {"exact_match", "partial_match", "numeric_match",
                             "not_extracted", "not_on_path", "mismatch",
                             "both_none", "one_none"}
               /\ (label = "both_none") <=>
                     (scored /\ rec.expected = None /\ rec.actual = None)
               /\ (label = "one_none") <=>
                     (scored /\ (rec.expected = None) # (rec.actual = None))
               /\ (rec.match_type.detail # <<>>) <=> label \in {"mismatch", "one_none"}

\* a variable extracted with a null value where a text was expected
C5_Witness ==
    /\ evaluation.returned
    /\ \E k \in DOMAIN Matches :
          /\ Matches[k].match_type.label = "one_none"
          /\ Matches[k].actual = None
          /\ Matches[k].expected # None

\* C9: relevant_expected_vars is the expected variables restricted to
\* vars_for_path when vars_for_path is non-empty and all of them otherwise;
\* with an empty structure every expected variable is scored and no record
\* is not_on_path.
C9_RelevantVars ==
    evaluation.returned =>
        LET relevant == evaluation.expected_variables_for_path
        IN /\ DeclaredOnPath # {} =>
                 /\ DOMAIN relevant = DOMAIN Expected \cap DeclaredOnPath
                 /\ \A k \in DOMAIN relevant : relevant[k] = Expected[k]
           /\ DeclaredOnPath = {} => relevant = Expected
           /\ pathway_structure.nodes = <<>> =>
                 /\ Summary.total_expected = Cardinality(DOMAIN Expected)
                 /\ NotOnPath = {}

\* the visited nodes declare one of the two expected variables
C9_Witness ==
    /\ evaluation.returned
    /\ Cardinality(DOMAIN Expected) = 2
    /\ Cardinality(DeclaredOnPath) = 1
    /\ DOMAIN evaluation.expected_variables_for_path = DeclaredOnPath

\* C10: each expected variable has exactly one record; its matched is null
\* iff its match_type is not_on_path iff it was excluded from
\* relevant_expected_vars; the excluded variables are counted in none of
\* total_expected, total_matched, total_partial and total_missing, nor in
\* the denominator of match_percentage.
C10_NotOnPathNotCounted ==
    evaluation.returned =>
        LET relevant == evaluation.expected_variables_for_path
            scored == DOMAIN Matches \ NotOnPath
        IN /\ DOMAIN Matches = DOMAIN Expected
           /\ \A k \in DOMAIN Matches :
                 /\ (Matches[k].matched = "None") <=> (k \in NotOnPath)
                 /\ (k \in NotOnPath) <=> (k \notin DOMAIN relevant)
           /\ Summary.total_expected = Cardinality(scored)
           /\ Summary.total_matched =
                 Cardinality({k \in scored : /\ Matches[k].matched = "True"
                                             /\ Matches[k].match_type.label # "partial_match"})
           /\ Summary.total_partial =
                 Cardinality({k \in scored : Matches[k].match_type.label = "partial_match"})
           /\ Summary.total_missing =
                 Cardinality({k \in scored : Matches[k].matched = "False"})
           /\ Summary.total_expected > 0 =>
                 Summary.match_percentage =
                    Percentages[Cardinality(scored)][Summary.total_matched]

\* a variable off the path whose extracted value equals the expected one,
\* beside a scored variable
C10_Witness ==
    /\ evaluation.returned
    /\ Summary.total_expected = 1
    /\ \E k \in NotOnPath :
          /\ k \in DOMAIN eval_result.final_variables
          /\ compare_values(Expected[k], eval_result.final_variables[k])[1]
          /\ Matches[k].matched = "None"

(***************************************************************************)
(* Claims about run_conversation (Spec).                                   *)
(***************************************************************************)
\* the sends of the run that the service answered
AnsweredSends ==
    {i \in 1..Len(remote_calls) :
        remote_calls[i].request.op = "send" /\ remote_calls[i].reply.received}

\* a send that carries an utterance in which an end was detected
TerminatingSend(i) ==
    /\ auto_detect_end
    /\ remote_calls[i].request.payload # <<>>
    /\ Detected[remote_calls[i].request.payload[1]][1]

HasEndToken ==
    [c \in GeneratorOutputs |->
        ContainsAnyCase(c, END_CALL) \/ ContainsAnyCase(c, GOODBYE)]

NeverCompleted == \A i \in AnsweredSends : ~remote_calls[i].reply.completed

NoEndTokenGenerated ==
    \A j \in 1..Len(generator_calls) :
        generator_calls[j].returned /\ ~HasEndToken[generator_calls[j].content]

Silent(i) == remote_calls[i].reply.assistant_responses = <<>>

\* two replies in a row without assistant text
TwoSilentReplies(i) ==
    /\ i \in AnsweredSends /\ i + 1 \in AnsweredSends
    /\ Silent(i) /\ Silent(i + 1)

\* C1 as stated: when the reply to the initial send or to a later
\* non-terminating user turn reports completed, nothing further is sent and
\* the run returns completed with end_reason pathway_completed; when it is
\* the initial reply, total_turns is 0 and no utterance was generated.
C1_CompletedIsPathwayCompleted ==
    \A i \in AnsweredSends :
        (remote_calls[i].reply.completed /\ ~TerminatingSend(i)) =>
            /\ i = Len(remote_calls)
            /\ result.returned =>
                  /\ result.completed
                  /\ result.end_reason = "pathway_completed"
                  /\ i = 2 => (result.total_turns = 0 /\ generator_calls = <<>>)

Hundred == TrueDivide(100, 1)

\* the float next above a positive float
Successor(x) ==
    IF \A i \in 1..DoublePrecision : x.bits[i] = 1
    THEN [zero |-> FALSE, exp |-> x.exp + 1,
          bits |-> [i \in 1..DoublePrecision |-> IF i = 1 THEN 1 ELSE 0]]
    ELSE [zero |-> FALSE, exp |-> x.exp, bits |-> Increment(x.bits)]

\* two floats equal or next to each other
WithinOneUlp(x, y) ==
    \/ x = y
    \/ ~x.zero /\ ~y.zero /\ (Successor(x) = y \/ Successor(y) = x)

\* C11 as stated: match_percentage == total_matched * 100 / total_expected
\* and partial_match_percentage == (total_matched + total_partial) * 100 /
\* total_expected when total_expected > 0, both 100 when it is 0, and
\* 0 <= match_percentage <= partial_match_percentage <= 100.
C11_Original ==
    evaluation.returned =>
        /\ Summary.total_expected > 0 =>
              /\ Summary.match_percentage =
                    TrueDivide(Summary.total_matched * 100, Summary.total_expected)
              /\ Summary.partial_match_percentage =
                    TrueDivide((Summary.total_matched + Summary.total_partial) * 100,
                               Summary.total_expected)
        /\ Summary.total_expected = 0 =>
              /\ Summary.match_percentage = Hundred
              /\ Summary.partial_match_percentage = Hundred
        /\ FloatLeq(Zero, Summary.match_percentage)
        /\ FloatLeq(Summary.match_percentage, Summary.partial_match_percentage)
        /\ FloatLeq(Summary.partial_match_percentage, Hundred)

\* C11, amended: match_percentage is the float (total_matched /
\* total_expected) * 100 and partial_match_percentage the float
\* ((total_matched + total_partial) / total_expected) * 100, the division
\* rounded before the multiplication, when total_expected > 0; each is equal
\* or next to the float of the count * 100 / total_expected; both are 100.0
\* when total_expected == 0; and 0 <= match_percentage <=
\* partial_match_percentage <= 100.
C11_Percentages ==
    evaluation.returned =>
        /\ Summary.total_expected > 0 =>
              /\ Summary.match_percentage =
                    Times(TrueDivide(Summary.total_matched, Summary.total_expected), 100)
              /\ Summary.partial_match_percentage =
                    Times(TrueDivide(Summary.total_matched + Summary.total_partial,
                                     Summary.total_expected), 100)
              /\ WithinOneUlp(Summary.match_percentage,
                    TrueDivide(Summary.total_matched * 100, Summary.total_expected))
              /\ WithinOneUlp(Summary.partial_match_percentage,
                    TrueDivide((Summary.total_matched + Summary.total_partial) * 100,
                               Summary.total_expected))
        /\ Summary.total_expected = 0 =>
              /\ Summary.match_percentage = Hundred
              /\ Summary.partial_match_percentage = Hundred
        /\ FloatLeq(Zero, Summary.match_percentage)
        /\ FloatLeq(Summary.match_percentage, Summary.partial_match_percentage)
        /\ FloatLeq(Summary.partial_match_percentage, Hundred)

\* one variable of three matched and one more matched partially
C11_Witness ==
    /\ evaluation.returned
    /\ Summary.total_expected = 3
    /\ Summary.total_matched = 1
    /\ Summary.total_partial = 1
    /\ Summary.match_percentage # TrueDivide(100, 3)

\* a remote call of the run that failed
FailedCall(calls, i) == ~calls[i].reply.received

\* C12: a failed createSession or sendTurn call is the last remote call of
\* the run: it is not retried, no remote call and no generator call follows
\* it, and no result is returned.
C12_FailurePropagates ==
    [][/\ \A i \in 1..Len(remote_calls') :
             FailedCall(remote_calls', i) =>
                 /\ i = Len(remote_calls')
                 /\ pc' = "raised"
                 /\ result' = NoResult
       /\ (\E i \in 1..Len(remote_calls) : FailedCall(remote_calls, i)) =>
             /\ remote_calls' = remote_calls
             /\ generator_calls' = generator_calls
             /\ result' = result]_vars

\* the send of a second turn failed, after two answered sends and a
\* generated utterance
C12_Witness ==
    /\ pc = "raised"
    /\ Len(remote_calls) = 4
    /\ FailedCall(remote_calls, 4)
    /\ remote_calls[4].request.payload # <<>>
    /\ generator_calls # <<>>
    /\ result = NoResult

\* the sends made so far, answered or not
SendCount ==
    Cardinality({i \in 1..Len(remote_calls) : remote_calls[i].request.op = "send"})

\* C13: every run whose calls all return ends, returning a result or
\* raising the error of a call; at every moment the turns counted are at
\* most max_turns and the sends made at most max_turns + 1, and so is
\* total_turns in the result.
C13_TerminatesWithinCap ==
    /\ <>(pc = "returned" \/ pc = "raised")
    /\ [](/\ turn_count <= max_turns
          /\ SendCount <= max_turns + 1
          /\ result.returned => result.total_turns <= max_turns)

\* a run that used every turn allowed, and so every send
C13_Witness ==
    /\ pc = "returned"
    /\ max_turns >= 2
    /\ result.total_turns = max_turns
    /\ SendCount = max_turns + 1

\* C14: a structure fetched successfully for a pathway id is stored; from
\* then on every lookup for that id returns the stored structure without a
\* remote call, and no evaluate_result call removes or replaces a stored
\* entry.
C14_CacheEntriesStay ==
    [][/\ \A id \in DOMAIN pathway_cache :
             /\ id \in DOMAIN pathway_cache'
             /\ pathway_cache'[id] = pathway_cache[id]
             /\ (eval_calls' # eval_calls /\ eval_result'.pathway_id = id) =>
                   /\ pathway_structure' = pathway_cache[id]
                   /\ fetch_calls' = fetch_calls
       /\ (fetch_calls' = fetch_calls + 1 /\ pathway_structure' # EmptyStructure) =>
             /\ eval_result'.pathway_id \in DOMAIN pathway_cache'
             /\ pathway_cache'[eval_result'.pathway_id] = pathway_structure']_vars

\* a later evaluation for a stored pathway id, made when the service holds
\* another structure for it: the stored one is used and nothing was fetched
\* again
C14_Witness ==
    /\ eval_calls >= 2
    /\ fetch_calls = 1
    /\ eval_result.pathway_id \in DOMAIN pathway_cache
    /\ service_structure # pathway_cache[eval_result.pathway_id]
    /\ pathway_structure = pathway_cache[eval_result.pathway_id]

\* the step is an evaluation whose lookup found nothing stored for the
\* pathway id of the result and got no structure from the service
FetchFailedInStep ==
    /\ eval_calls' = eval_calls + 1
    /\ eval_result'.pathway_id # NoneValue
    /\ eval_result'.pathway_id \notin DOMAIN pathway_cache
    /\ pathway_structure' = EmptyStructure

\* C15: when the fetch of the structure fails (no credential, a transport
\* error or an error payload), evaluate_result returns an evaluation in
\* which every expected variable is scored (total_not_on_path == 0, no
\* not_on_path record), and the cache is as it was.
C15_FetchFailureFallsBack ==
    [][FetchFailedInStep =>
          /\ evaluation'.returned
          /\ evaluation'.match_summary.total_not_on_path = 0
          /\ evaluation'.match_summary.total_expected =
                Cardinality(DOMAIN persona.extracted_vars_expected)
          /\ \A k \in DOMAIN evaluation'.variable_matches :
                evaluation'.variable_matches[k].match_type.label # "not_on_path"
          /\ DOMAIN evaluation'.variable_matches = DOMAIN persona.extracted_vars_expected
          /\ pathway_cache' = pathway_cache]_vars

\* a failed fetch, with a remote call, for one pathway id after a successful
\* one for another
C15_Witness ==
    /\ eval_calls >= 2
    /\ fetch_calls = 2
    /\ pathway_cache # EmptyDict
    /\ eval_result.pathway_id # NoneValue
    /\ eval_result.pathway_id \notin DOMAIN pathway_cache
    /\ pathway_structure = EmptyStructure
    /\ evaluation.returned
    /\ evaluation.match_summary.total_not_on_path = 0
    /\ evaluation.match_summary.total_expected = 2

IsUserMessage(m) == m.role = "user"

\* the i-th remote call carries an utterance in which, end detection being
\* enabled, an end is detected
EndingSend(calls, i) ==
    /\ auto_detect_end
    /\ calls[i].request.payload # <<>>
    /\ Detected[calls[i].request.payload[1]][1]

\* C16: with end detection enabled, an utterance holding an end token is
\* sent to the service and is the last call of the run: end_reason is the
\* detected reason, no remote or generator call follows, and the result's
\* completed, final_node and final_variables are those of the service's
\* reply to it.
C16_EndDetectedEndsRun ==
    [][/\ LET users == SelectSeq(persona_chat_history', IsUserMessage)
              last == users[Len(users)].content
          IN (users # <<>> /\ auto_detect_end /\ Detected[last][1]) =>
                /\ remote_calls'[Len(remote_calls')].request.payload = <<last>>
                /\ end_reason' = Detected[last][2]
       /\ \A i \in 1..Len(remote_calls') :
             EndingSend(remote_calls', i) =>
                /\ i = Len(remote_calls')
                /\ pc' \in {"after_loop", "returned", "raised"}
                /\ result'.returned =>
                      /\ result'.end_reason =
                            Detected[remote_calls'[i].request.payload[1]][2]
                      /\ result'.completed = remote_calls'[i].reply.completed
                      /\ result'.final_node = remote_calls'[i].reply.current_node_name
                      /\ result'.final_variables = remote_calls'[i].reply.variables
       /\ (\E i \in 1..Len(remote_calls) : EndingSend(remote_calls, i)) =>
             /\ remote_calls' = remote_calls
             /\ generator_calls' = generator_calls]_vars

\* a generated utterance with GOODBYE behind a label ended the second turn,
\* and the service's reply to it reported completed at another node
C16_Witness ==
    /\ pc = "returned"
    /\ Len(remote_calls) = 4
    /\ EndingSend(remote_calls, 4)
    /\ Len(generator_calls) = 2
    /\ result.end_reason = "user_ended_call_naturally"
    /\ result.completed
    /\ result.final_node = "Collect"
    /\ remote_calls[3].reply.current_node_name = "Greeting"

\* Remote call 1 creates the session and call 2 is the initial send, so call
\* i >= 3 is the send of turn i - 2, made after the reply to call i - 1.
\* Where the utterance of that turn has to come from, by the replies alone:
SourceByReplies(i) ==
    IF ~Silent(i - 1) \/ i = 3 THEN "persona"
    ELSE IF Silent(i - 2) THEN "end_call"
    ELSE "probe"

\* how many of the turns up to the one of call i asked the persona generator
PersonaTurnsUpTo(i) ==
    Cardinality({j \in 3..i : SourceByReplies(j) = "persona"})

\* every turn's utterance comes from where the replies say, and the
\* generator was called for the persona turns and for no other
UtterancesFollowReplies ==
    /\ \A i \in 3..Len(remote_calls) :
          LET payload == remote_calls[i].request.payload
          IN CASE SourceByReplies(i) = "end_call" -> payload = <<END_CALL>>
               [] SourceByReplies(i) = "probe" -> payload = <<PROBE>>
               [] SourceByReplies(i) = "persona" ->
                    /\ PersonaTurnsUpTo(i) <= Len(generator_calls)
                    /\ generator_calls[PersonaTurnsUpTo(i)].returned
                    /\ payload =
                          <<GeneratedUtterance[generator_calls[PersonaTurnsUpTo(i)].content]>>
    /\ LET asked == PersonaTurnsUpTo(Len(remote_calls))
       IN \/ Len(generator_calls) = asked
          \/ /\ Len(generator_calls) = asked + 1
             /\ ~generator_calls[asked + 1].returned
             /\ pc = "raised"

\* C17 as stated: the utterance of a turn is END_CALL after two or more
\* silent replies in a row, the probe after exactly one when the turn is not
\* turn 1, the sanitized generator output otherwise, the generator being
\* called in no other case; and with end detection enabled a run in which
\* two replies in a row were silent ends with user_ended_call_unsuccessfully.
C17_Original ==
    /\ UtterancesFollowReplies
    /\ (result.returned /\ auto_detect_end /\ \E i \in AnsweredSends : TwoSilentReplies(i)) =>
          result.end_reason = "user_ended_call_unsuccessfully"

\* C17, amended: the utterance of a turn is END_CALL after two or more
\* silent replies in a row, the probe after exactly one when the turn is not
\* turn 1, the sanitized generator output otherwise, the generator being
\* called in no other case; and with end detection enabled, a turn run after
\* two silent replies in a row is the last of the run, which ends with
\* user_ended_call_unsuccessfully; no such turn is run when the second of the
\* two replies reports completed, answers the last turn max_turns allows, or
\* answers an utterance in which an end was detected.
C17_UtteranceChoice ==
    /\ UtterancesFollowReplies
    /\ \A i \in 4..Len(remote_calls) :
          (auto_detect_end /\ Silent(i - 1) /\ Silent(i - 2)) =>
              /\ i = Len(remote_calls)
              /\ end_reason = "user_ended_call_unsuccessfully"
              /\ result.returned => result.end_reason = "user_ended_call_unsuccessfully"
    /\ (result.returned /\ auto_detect_end
          /\ \E i \in AnsweredSends : TwoSilentReplies(i)
          /\ result.end_reason # "user_ended_call_unsuccessfully") =>
              /\ TwoSilentReplies(Len(remote_calls) - 1)
              /\ \/ remote_calls[Len(remote_calls)].reply.completed
                 \/ turn_count = max_turns
                 \/ EndingSend(remote_calls, Len(remote_calls))

\* a run with a generated utterance on its first turn, the probe after
\* one silent reply and END_CALL after the next, which ended it
C17_Witness ==
    /\ result.returned
    /\ auto_detect_end
    /\ Len(remote_calls) = 5
    /\ ~Silent(2) /\ Silent(3) /\ Silent(4)
    /\ remote_calls[4].request.payload = <<PROBE>>
    /\ remote_calls[5].request.payload = <<END_CALL>>
    /\ Len(generator_calls) = 1
    /\ result.end_reason = "user_ended_call_unsuccessfully"

\* the run has one session: the first call creates it, every later call is
\* a send with the chat id that call returned, the first send carrying no
\* message and every later one the utterance of a turn
OneSessionPerRun ==
    \A i \in 1..Len(remote_calls) :
        IF i = 1 THEN remote_calls[i].request.op = "create"
        ELSE /\ remote_calls[i].request.op = "send"
             /\ remote_calls[1].reply.received
             /\ remote_calls[i].request.chat_id = remote_calls[1].reply.chat_id
             /\ (remote_calls[i].request.payload = <<>>) <=> (i = 2)

\* an end was detected in an utterance of the run
EndDetected ==
    end_reason \in {"user_ended_call_naturally", "user_ended_call_unsuccessfully"}

\* C18 as stated: one session is created and every send uses its chat id;
\* there is one initial send with no message, one send per turn, and one
\* more send in the turn where an end is detected.
C18_Original ==
    /\ OneSessionPerRun
    /\ result.returned =>
          SendCount = 1 + turn_count + (IF EndDetected THEN 1 ELSE 0)

\* C18, amended: one session is created and every send uses its chat id;
\* there is one initial send with no message and then exactly one send per
\* turn, the send of the turn where an end is detected being that one send;
\* a turn whose generator call raises sends nothing, and each step of the
\* run makes at most one remote call.
C18_OneSendPerTurn ==
    /\ [](/\ OneSessionPerRun
          /\ pc \in {"loop", "after_loop", "returned"} => SendCount = 1 + turn_count
          /\ pc = "raised" /\ Len(remote_calls) >= 2 =>
                SendCount \in {turn_count, 1 + turn_count})
    /\ [][/\ Len(remote_calls') <= Len(remote_calls) + 1
          /\ turn_count' = turn_count + 1 =>
                \/ Len(remote_calls') = Len(remote_calls) + 1
                \/ pc' = "raised" /\ remote_calls' = remote_calls]_vars

\* a run of two turns on the second session, ended by an end detected in
\* the utterance of the second turn: three sends
C18_Witness ==
    /\ result.returned
    /\ EndDetected
    /\ result.chat_id = "chat-2"
    /\ turn_count = 2
    /\ SendCount = 3
    /\ TerminatingSend(Len(remote_calls))

\* an end was detected in an utterance the run sent
UserEndDetected == \E i \in 1..Len(remote_calls) : TerminatingSend(i)

\* C19 as stated: the result's end_reason is max_turns_reached exactly when
\* the run made max_turns turns, no reply reported completed and no end was
\* detected in an utterance; a result with end_reason max_turns_reached has
\* completed false.
C19_MaxTurnsReachedIff ==
    result.returned =>
        /\ (result.end_reason = "max_turns_reached") <=>
              /\ result.total_turns = max_turns
              /\ NeverCompleted
              /\ ~UserEndDetected
        /\ result.end_reason = "max_turns_reached" => ~result.completed

\* the log after a step is the log before it, or that log with one entry
\* appended
LogOnlyAppended ==
    /\ Len(conversation_log') \in {Len(conversation_log), Len(conversation_log) + 1}
    /\ SubSeq(conversation_log', 1, Len(conversation_log)) = conversation_log

\* the k-th entry of the log records turn k
LogTurnsInOrder ==
    \A k \in 1..Len(conversation_log) : conversation_log[k].turn = k

\* C20 as stated: the conversation log only grows by appending, its k-th
\* entry has turn k, and the result holds one entry for each of its
\* total_turns turns, whichever way the run ended.
C20_Original ==
    /\ [][LogOnlyAppended]_vars
    /\ [](/\ LogTurnsInOrder
          /\ result.returned =>
                Len(result.conversation_log) = result.total_turns)

\* C20, amended: the conversation log only grows by appending and its k-th
\* entry has turn k; the result holds one entry for each of its total_turns
\* turns when no end was detected in an utterance, and one entry for each
\* turn but the last, in which the end was detected, otherwise.
C20_LogPerLoggedTurn ==
    /\ [][LogOnlyAppended]_vars
    /\ [](/\ LogTurnsInOrder
          /\ result.returned =>
                /\ result.conversation_log = conversation_log
                /\ Len(result.conversation_log) =
                      result.total_turns - (IF UserEndDetected THEN 1 ELSE 0))

\* a returned run of three turns with an end detected in the third: two
\* entries in the log
C20_Witness ==
    /\ result.returned
    /\ UserEndDetected
    /\ result.total_turns = 3
    /\ Len(result.conversation_log) = 2
    /\ result.conversation_log[2].turn = 2

(***************************************************************************)
(* Claims about a conversation and its evaluation (PipelineSpec).          *)
(***************************************************************************)
\* the node names the service reported as current in the replies of the run
ReportedNodes ==
    {remote_calls[i].reply.current_node_name : i \in AnsweredSends}

\* C21: the visited_nodes of the evaluation of a driver's result contain
\* every node name the service reported as current in a reply of that
\* conversation, the reply to the initial send included.
C21_VisitedNodesComplete ==
    evaluation.returned => ReportedNodes \subseteq evaluation.visited_nodes

(***************************************************************************)
(* Claims about the history kept for the persona generator (Spec).         *)
(***************************************************************************)
\* the calls without the history the service reported in its replies
WithoutReportedHistory(calls) ==
    [i \in 1..Len(calls) |->
        IF i >= 2 /\ calls[i].reply.received
        THEN [calls[i] EXCEPT !.reply.chat_history = <<>>]
        ELSE calls[i]]

\* the assistant texts received and the utterances sent up to call i, in
\* the order they came
RECURSIVE ExchangedUpTo(_, _)
ExchangedUpTo(calls, i) ==
    IF i < 2 THEN <<>>
    ELSE LET texts == calls[i].reply.assistant_responses
         IN ExchangedUpTo(calls, i - 1)
            \o (IF i >= 3 THEN <<Message("user", calls[i].request.payload[1])>> ELSE <<>>)
            \o [k \in 1..Len(texts) |-> Message("assistant", texts[k])]

\* C22: at each call of the persona generator the history passed is the
\* assistant texts received and the user utterances derived so far in the
\* run, in order; it is computed from the calls without the chat_history of
\* the replies, and so is the utterance derived from the generator's answer:
\* runs whose replies differ only in chat_history pass the same histories
\* and derive the same utterances.
C22_LocalHistoryOnly ==
    [][Len(generator_calls') > Len(generator_calls) =>
          LET call == generator_calls'[Len(generator_calls')]
              seen == WithoutReportedHistory(remote_calls)
          IN /\ Len(generator_calls') = Len(generator_calls) + 1
             /\ call.chat_history = ExchangedUpTo(seen, Len(seen))
             /\ call.returned =>
                   /\ Len(remote_calls') = Len(remote_calls) + 1
                   /\ remote_calls'[Len(remote_calls')].request.payload =
                         <<GeneratedUtterance[call.content]>>
                   /\ persona_chat_history' =
                         Append(call.chat_history,
                                Message("user", GeneratedUtterance[call.content]))]_vars

\* the generator was called a second time, after a reply that carried an
\* assistant text and a malformed history
C22_Witness ==
    /\ Len(generator_calls) = 2
    /\ generator_calls[2].returned
    /\ Len(generator_calls[2].chat_history) = 3
    /\ remote_calls[3].reply.assistant_responses # <<>>
    /\ remote_calls[3].reply.chat_history =
          <<Message("user", <<"H", "i">>), Message("user", <<"o", "k">>)>>
    /\ remote_calls[2].reply.chat_history # <<>>

(***************************************************************************)
(* Claims about evaluations running at the same time (ConcurrentSpec).     *)
(***************************************************************************)
\* the fetches for the shared pathway that returned a structure: those
\* waiting to be stored, and the one stored
StructuresFetched ==
    Cardinality({w \in Workers : pc[w] = "store"})
    + (IF SharedPathway \in DOMAIN pathway_cache THEN 1 ELSE 0)

\* C23: when evaluations of results that share a pathway id run at the same
\* time, over every interleaving of the test, the fetch and the store of the
\* lookup, at most one fetch for the id brings a structure (no second fetch
\* is made once one has) and an entry stored is never written again.
C23_GuardedCache ==
    /\ [](StructuresFetched <= 1)
    /\ [][/\ \A id \in DOMAIN pathway_cache :
                /\ id \in DOMAIN pathway_cache'
                /\ pathway_cache'[id] = pathway_cache[id]
          /\ \A w \in Workers :
                (pc[w] = "store" /\ pc'[w] # "store") =>
                    SharedPathway \notin DOMAIN pathway_cache]_vars

(***************************************************************************)
(* Further claims about compare_values (CompareSpec).                      *)
(***************************************************************************)
\* C24: compare_values(a, b) and compare_values(b, a) agree on the verdict
\* and, when they match, on the reason (both_none, exact_match,
\* partial_match or numeric_match); when they do not, on one_none or
\* mismatch.
C24_SymmetricVerdict ==
    Len(fn_output) = 2 =>
        /\ fn_output[1][1] = fn_output[2][1]
        /\ fn_output[1][1] => fn_output[1][2] = fn_output[2][2]
        /\ fn_output[1][2].label = fn_output[2][2].label

\* a shorter text compared with a longer one that contains it, both ways
C24_Witness ==
    /\ Len(fn_output) = 2
    /\ fn_input = <<Str(<<"N", "e", "w", " ", "Y", "o", "r", "k">>),
                    Str(<<"n", "e", "w", " ", "y", "o", "r", "k", ",", " ", "n", "y">>)>>
    /\ fn_output[1] = <<TRUE, Reason("partial_match")>>
    /\ fn_output[2] = <<TRUE, Reason("partial_match")>>

\* both values parse as numbers, and the numbers differ
UnequalNumbers(e, a) ==
    /\ e # None /\ a # None
    /\ float(e).ok /\ float(a).ok
    /\ float(e).num * float(a).den # float(a).num * float(e).den

\* C25 as stated: compare_values reports no match for two values that both
\* parse as numbers and are numerically unequal, given as numbers or as text.
C25_Original ==
    (fn_output # <<>> /\ UnequalNumbers(fn_input[1], fn_input[2])) => ~fn_output[1][1]

\* C25, amended: for two values that both parse as numbers and are
\* numerically unequal, compare_values reports neither exact_match nor
\* numeric_match, and no match at all when one of them is given as a number;
\* for two texts it reports partial_match exactly when one contains the
\* other after trim and lowercase, as "1" and "10" do.
C25_UnequalNumbers ==
    (fn_output # <<>> /\ UnequalNumbers(fn_input[1], fn_input[2])) =>
        LET e == fn_input[1]
            a == fn_input[2]
            out == fn_output[1]
        IN /\ out[2].label \in {"partial_match", "mismatch"}
           /\ out[1] <=> (out[2].label = "partial_match")
           /\ out[1] <=> OneContainsTheOther(e, a)
           /\ (e.type = "number" \/ a.type = "number") => ~out[1]

\* the texts "1" and "10": unequal numbers, reported as a partial match
C25_Witness ==
    /\ fn_input = <<Str(<<"1">>), Str(<<"1", "0">>)>>
    /\ fn_output # <<>>
    /\ fn_output[1] = <<TRUE, Reason("partial_match")>>

(***************************************************************************)
(* Further claims about evaluate_result (EvalSpec).                        *)
(***************************************************************************)
IsBlankText(v) == v.type = "str" /\ strip(v.text) = <<>>

\* the scored variables whose extracted value is an empty or whitespace-only
\* text where a text that is not blank was expected
BlankExtractions ==
    { k \in DOMAIN Matches :
        /\ Matches[k].match_type.label # "not_on_path"
        /\ k \in DOMAIN eval_result.final_variables
        /\ IsBlankText(eval_result.final_variables[k])
        /\ Expected[k].type = "str" /\ ~IsBlankText(Expected[k]) }

\* the scored variables with a record of the given verdict and reason
RecordsWith(matched, labels) ==
    { k \in DOMAIN Matches :
        Matches[k].matched = matched /\ Matches[k].match_type.label \in labels }

\* C26 as stated: an extracted value that is an empty or whitespace-only
\* text is not matched or partially matched against an expected text that is
\* not empty; the variable is counted in total_missing.
C26_Original ==
    evaluation.returned =>
        /\ \A k \in BlankExtractions : Matches[k].matched = "False"
        /\ Summary.total_missing >= Cardinality(BlankExtractions)

\* C26, amended: an extracted value that is an empty or whitespace-only
\* text is a partial match of every expected text that is not blank (the
\* empty text is contained in every text): the record is matched with
\* partial_match and the variable is counted in total_partial, not in
\* total_matched and not in total_missing.
C26_BlankIsPartial ==
    evaluation.returned =>
        /\ \A k \in BlankExtractions :
              /\ Matches[k].matched = "True"
              /\ Matches[k].match_type = Reason("partial_match")
        /\ Summary.total_partial = Cardinality(RecordsWith("True", {"partial_match"}))
        /\ Summary.total_missing =
              Cardinality(RecordsWith("False", {"mismatch", "one_none", "not_extracted"}))
        /\ Summary.total_matched =
              Cardinality(RecordsWith("True", {"exact_match", "numeric_match", "both_none"}))

\* an evaluation that scored a variable extracted as " " where "ny" was
\* expected
C26_Witness ==
    /\ evaluation.returned
    /\ "city" \in BlankExtractions
    /\ eval_result.final_variables["city"] = Str(<<" ">>)
    /\ Expected["city"] = Str(<<"n", "y">>)
    /\ Summary.total_partial >= 1
    /\ Summary.total_missing = 0

\* the expected variables that no visited node declares
ExpectedOffPath == DOMAIN Expected \ DeclaredOnPath

C28_Original ==
    fn_output # <<>> => ~HasLabel(fn_output[1])

\* C28, amended: the sanitizer removes one leading speaker label; the
\* utterance it returns begins with a speaker label exactly when the first
\* non-blank line of the input begins with two labels in a row, as in
\* "User:User:hi", which gives "User:hi".
C28_OneLabelRemoved ==
    fn_output # <<>> =>
        LET out == fn_output[1]
            line == FirstLineTrimmed(fn_input)
        IN HasLabel(out) <=>
              /\ ~IsBlank(fn_input)
              /\ HasLabel(line)
              /\ HasLabel(AfterLabel(line))

\* an input of two labels and a word: the second label is returned
C28_Witness ==
    /\ fn_input = <<"U", "s", "e", "r", ":", "U", "s", "e", "r", ":", "h", "i">>
    /\ fn_output = << <<"U", "s", "e", "r", ":", "h", "i">> >>

(***************************************************************************)
(* Claims about the two drivers (BothSpec).                                *)
(***************************************************************************)
\* C29: against the same scripted service and generator,
\* run_conversation_with_live_updates makes the remote calls that
\* run_conversation (with end detection enabled) made, in the same order,
\* and returns a result equal in completed, end_reason, total_turns,
\* final_node, final_variables and conversation_log.
C29_DriversEquivalent ==
    /\ live_run.pc # "off_script"
    /\ live_run.result.returned =>
          /\ live_run.remote_calls = remote_calls
          /\ live_run.result.completed = result.completed
          /\ live_run.result.end_reason = result.end_reason
          /\ live_run.result.total_turns = result.total_turns
          /\ live_run.result.final_node = result.final_node
          /\ live_run.result.final_variables = result.final_variables
          /\ live_run.result.conversation_log = result.conversation_log

(***************************************************************************)
(* Further claims about the history kept for the generator (Spec).         *)
(***************************************************************************)
\* C30: at every call of the persona generator the history passed is empty,
\* which happens on turn 1 only, or ends with an assistant message; it never
\* ends with a user message.
C30_HistoryEndsWithAssistant ==
    [][Len(generator_calls') > Len(generator_calls) =>
          LET history == generator_calls'[Len(generator_calls')].chat_history
          IN IF history = <<>>
             THEN turn_count' = 1
             ELSE /\ history[Len(history)].role = "assistant"
                  /\ ~IsUserMessage(history[Len(history)])]_vars

\* the generator was asked on turn 1 with an empty history, the initial
\* reply being silent, and again on turn 2 after a reply with a text
C30_Witness ==
    /\ Len(generator_calls) = 2
    /\ generator_calls[1].chat_history = <<>>
    /\ Len(generator_calls[2].chat_history) = 2
    /\ IsUserMessage(generator_calls[2].chat_history[1])
    /\ generator_calls[2].chat_history[2].role = "assistant"
    /\ turn_count = 2

=============================================================================
